---------------------------- MODULE Spec2Model ----------------------------
(***************************************************************************)
(* SharePoint folder synchronisation of open_webui: the persisted sync job *)
(* record (models/sharepoint_sync.py), the start-run and cancel endpoints  *)
(* and the background orchestrator run_sync_in_background, the retrying    *)
(* HTTP client retry_request and the recursive folder listing              *)
(* list_folder_contents (routers/sharepoint.py).                           *)
(*                                                                         *)
(* Scheduling.  The endpoints and the orchestrator are coroutines of one   *)
(* asyncio event loop and every call on SharePointSyncs / Files /          *)
(* Knowledges is a blocking call, so the code between two awaits runs      *)
(* without interruption.  The orchestrator awaits in list_folder_contents  *)
(* and in download_file_from_sharepoint only; each action below is one     *)
(* such uninterrupted segment, or one whole endpoint handler.              *)
(***************************************************************************)
EXTENDS Integers, Sequences, FiniteSets, TLC

(* ------------------------------ bounds -------------------------------- *)
\* orchestrator tasks that may be dispatched in one behaviour
MaxRuns == 2
\* remote item ids of the small remote folders are 1..MaxItems
MaxItems == 2
\* number of files of the large remote folder
LongItems == 150
\* an item's lastModifiedDateTime is one of 1..MaxStamp
MaxStamp == 2
\* max_retries of a call of retry_request is one of 1..MaxRetries
MaxRetries == 3
\* items (files, folders, others) of a remote tree below its root folder
MaxNodes == 4
\* items per page of a children listing are 1..MaxPage
MaxPage == 2
\* outages of the sharepoint_sync table during which SharePointSyncs fails
MaxFaults == 1
\* items of a remote tree listed for a preview
PreviewNodes == 2

\* webhook calls followed, and mailboxes configured one after the other
MaxCalls == 2
MaxMailboxes == 2

\* runs started through the endpoints called by any user
AccessRuns == 1

(* ------------------------- program constants --------------------------- *)
\* add_sync_log keeps the last 100 entries
LogCap == 100
\* "; ".join(errors[:5])
ErrLimit == 5
\* max_retries: int = 3
DefaultRetries == 3

(* ------------------------------ values --------------------------------- *)
\* Optional[int] None of last_sync_at; the clock starts at 1
NoTime == 0
\* file_name=None of a log entry that is not about a file; item ids start at 1
NoFile == 0

Min(a, b) == IF a < b THEN a ELSE b

\* an f-string: its fixed text, the numbers and the text interpolated into it
Msg(text, args, detail) == [text |-> text, args |-> args, detail |-> detail]

\* values of sync_error: None, a fixed text, "; ".join(...), str(e)
ErrNone == [text |-> "None", parts |-> <<>>]
ErrText(text) == [text |-> text, parts |-> <<>>]
ErrJoined(parts) == [text |-> "; ", parts |-> parts]

VARIABLES
    job,        \* the sharepoint_sync row of the job
    files_db,   \* rows of the file table tagged with this job, in insertion order
    knowledge,  \* ids (positions in files_db) of the files attached to the knowledge collection
    runs,       \* the dispatched orchestrator tasks: their local variables and position
    nruns,      \* number of orchestrator tasks dispatched so far
    now,        \* int(time.time())
    resp,       \* body of the last endpoint response
    appended,   \* history: the log entries appended since sync_logs was last reset
    rq,         \* the call of retry_request in progress: its local variables and position
    ls,         \* the call of list_folder_contents in progress: the remote tree and the call stack
    dl,         \* the call of download_file_from_sharepoint in progress
    store,      \* whether SharePointSyncs reaches its table, and the outages so far
    preview,    \* the response of the last list-folder request
    mail,       \* the mailbox of the channel, its email records, the channel's messages, the webhook calls
    api         \* the last request to an endpoint of the job and its answer; whether the job was deleted

\* the variables of the synchronisation of the job
syncvars == <<job, files_db, knowledge, runs, nruns, now, resp, appended>>

\* the variables beside the job, retry_request and list_folder_contents
sidevars == <<dl, store, preview, mail, api>>

vars == <<job, files_db, knowledge, runs, nruns, now, resp, appended, rq, ls, sidevars>>

Statuses == {"idle", "syncing", "synced", "error", "cancelled", "token_expired"}
Terminal == {"synced", "error", "cancelled", "token_expired"}

RunIds == 1..MaxRuns

(* -------------------- models/sharepoint_sync.py ------------------------ *)

\* SharePointSyncsTable.insert_new_sync: the row of a new job, created by
\* user 1 with the name "a" and the access_control {} (private)
NewSync(t) ==
    [ last_sync_at  |-> NoTime,
      file_count    |-> 0,
      sync_status   |-> "idle",
      sync_error    |-> ErrNone,
      sync_logs     |-> <<>>,
      sync_progress |-> 0,
      sync_total    |-> 0,
      updated_at    |-> t,
      user_id       |-> 1,
      name          |-> "a",
      access_control |-> "private" ]

\* the update with model_dump(): the fields the form leaves unset are written
\* with their default None
update_sync_by_id_all_fields(sync, t, form) ==
    [ key \in DOMAIN sync |->
        IF key \in DOMAIN form THEN form[key]
        ELSE IF key = "updated_at" THEN t
        ELSE NewSync(t)[key] ]

\* SharePointSyncsTable.update_sync_by_id: the fields set in the form
\* (model_dump(exclude_unset=True)) and updated_at are written, nothing else
update_sync_by_id(sync, t, form) ==
    [ key \in DOMAIN sync |->
        IF key \in DOMAIN form THEN form[key]
        ELSE IF key = "updated_at" THEN t
        ELSE sync[key] ]

(* ----------------------- routers/sharepoint.py ------------------------- *)

\* the dict add_sync_log appends
LogEntry(t, level, message, file_name) ==
    [timestamp |-> t, level |-> level, message |-> message, file_name |-> file_name]

\* logs[-100:]
LastN(s, n) == IF Len(s) > n THEN SubSeq(s, Len(s) - n + 1, Len(s)) ELSE s

\* add_sync_log without its bound: every entry is kept
add_sync_log_unbounded(sync, t, level, message, file_name) ==
    update_sync_by_id(sync, t,
        [sync_logs |-> Append(sync.sync_logs, LogEntry(t, level, message, file_name))])

\* add_sync_log with logs[:100] for logs[-100:]: the first 100 entries are kept
add_sync_log_keeps_first(sync, t, level, message, file_name) ==
    LET logs == Append(sync.sync_logs, LogEntry(t, level, message, file_name))
    IN  update_sync_by_id(sync, t,
            [sync_logs |-> IF Len(logs) > LogCap THEN SubSeq(logs, 1, LogCap) ELSE logs])

\* add_sync_log: read the row, append the entry, keep the last 100, write sync_logs
add_sync_log(sync, t, level, message, file_name) ==
    LET logs == Append(sync.sync_logs, LogEntry(t, level, message, file_name))
        kept == IF Len(logs) > LogCap THEN LastN(logs, LogCap) ELSE logs
    IN  update_sync_by_id(sync, t, [sync_logs |-> kept])

\* get_existing_sharepoint_files finding no file of the job
get_existing_sharepoint_files_none(db) == <<>>

\* get_existing_sharepoint_files: sharepoint_item_id -> {file_id, last_modified};
\* a later row of the same item replaces an earlier one
get_existing_sharepoint_files(db) ==
    LET ids == {db[i].sharepoint_item_id : i \in DOMAIN db}
        last(item) == CHOOSE i \in DOMAIN db :
                          /\ db[i].sharepoint_item_id = item
                          /\ \A j \in DOMAIN db :
                                 db[j].sharepoint_item_id = item => j <= i
    IN  [item \in ids |->
            [file_id |-> last(item),
             last_modified |-> db[last(item)].sharepoint_last_modified]]

\* the local variables of an orchestrator task that was not dispatched yet
NoRun ==
    [ pc               |-> "unused",
      files            |-> <<>>,
      existing_files   |-> <<>>,
      idx              |-> 0,
      synced_count     |-> 0,
      skipped_count    |-> 0,
      errors           |-> <<>>,
      current_progress |-> 0,
      exit             |-> "",
      cancel_seen      |-> FALSE ]

\* The state one uninterrupted segment of the orchestrator works on.
Seg(r) ==
    [ job |-> job, run |-> runs[r], app |-> appended,
      files_db |-> files_db, knowledge |-> knowledge,
      ok |-> store.ok /\ ~api.deleted ]

\* add_sync_log called by the orchestrator (and the history of appends);
\* nothing is appended when get_sync_by_id returns None
\* (models/sharepoint_sync.py lines 150-158)
Log(st, t, level, message, file_name) ==
    IF ~st.ok THEN st
    ELSE
    [st EXCEPT !.job = add_sync_log(st.job, t, level, message, file_name),
               !.app = Append(st.app, LogEntry(t, level, message, file_name))]

\* SharePointSyncs.update_sync_by_id called by the orchestrator; an exception
\* of the session is logged and None returned, which no caller looks at
\* (models/sharepoint_sync.py lines 240-242)
Update(st, t, form) ==
    IF ~st.ok THEN st
    ELSE
    [st EXCEPT !.job = update_sync_by_id(st.job, t, form),
               !.app = IF "sync_logs" \in DOMAIN form THEN form.sync_logs ELSE st.app]

\* "; ".join(errors[:5]) if errors else None
JoinErrors(errors) ==
    IF errors = <<>> THEN ErrNone
    ELSE ErrJoined(SubSeq(errors, 1, Min(ErrLimit, Len(errors))))

\* the completion with file_count = synced_count, the skipped files forgotten
CompleteCountsSyncedOnly(st, t) ==
    LET run == st.run
        msg == Msg("Completed: {} new, {} skipped, {} errors",
                   <<run.synced_count, run.skipped_count, Len(run.errors)>>, "")
        st1 == Log(st, t, "info", msg, NoFile)
        st2 == Update(st1, t,
                 [ sync_status  |-> IF run.errors = <<>> THEN "synced" ELSE "error",
                   sync_error   |-> JoinErrors(run.errors),
                   last_sync_at |-> t,
                   file_count   |-> run.synced_count ])
    IN  [st2 EXCEPT !.run.pc = "done", !.run.exit = "completed"]

\* lines 569-586: the loop is over: completion log, then status, error,
\* last_sync_at and file_count in one update
Complete(st, t) ==
    LET run == st.run
        msg == Msg("Completed: {} new, {} skipped, {} errors",
                   <<run.synced_count, run.skipped_count, Len(run.errors)>>, "")
        st1 == Log(st, t, "info", msg, NoFile)
        st2 == Update(st1, t,
                 [ sync_status  |-> IF run.errors = <<>> THEN "synced" ELSE "error",
                   sync_error   |-> JoinErrors(run.errors),
                   last_sync_at |-> t,
                   file_count   |-> run.synced_count + run.skipped_count ])
    IN  [st2 EXCEPT !.run.pc = "done", !.run.exit = "completed"]

RECURSIVE LoopFrom(_, _)

\* the loop with an update path: an item of the skip-set whose last-modified
\* value differs from the recorded one is downloaded again
LoopFromUpdatesModified(st, t) ==
    LET run == st.run IN
    IF run.idx > Len(run.files) THEN Complete(st, t)
    ELSE IF st.ok /\ st.job.sync_status = "cancelled"
    THEN [Log(st, t, "info", Msg("Sync cancelled by user", <<>>, ""), NoFile)
             EXCEPT !.run.pc = "done", !.run.exit = "cancelled"]
    ELSE
    LET sp_file == run.files[run.idx]
        progress == run.current_progress + 1
        st1 == [Update(st, t, [sync_progress |-> progress])
                   EXCEPT !.run.current_progress = progress,
                          !.run.cancel_seen = FALSE]
    IN  IF /\ sp_file.id \in DOMAIN run.existing_files
           /\ run.existing_files[sp_file.id].last_modified
                 = sp_file.lastModifiedDateTime
        THEN LET st2 == Log(st1, t, "skip", Msg("Skipped (unchanged)", <<>>, ""),
                            sp_file.id)
             IN  LoopFrom([st2 EXCEPT !.run.skipped_count = @ + 1,
                                      !.run.idx = @ + 1], t)
        ELSE [st1 EXCEPT !.run.pc = "download"]

\* lines 467-500: the for loop from item run.idx on, up to the next await
\* (the download of an item that is not in the skip-set) or to the return
LoopFrom(st, t) ==
    LET run == st.run IN
    IF run.idx > Len(run.files) THEN Complete(st, t)
    ELSE IF st.ok /\ st.job.sync_status = "cancelled"
    THEN [Log(st, t, "info", Msg("Sync cancelled by user", <<>>, ""), NoFile)
             EXCEPT !.run.pc = "done", !.run.exit = "cancelled"]
    ELSE
    LET sp_file == run.files[run.idx]
        progress == run.current_progress + 1
        st1 == [Update(st, t, [sync_progress |-> progress])
                   EXCEPT !.run.current_progress = progress,
                          !.run.cancel_seen = FALSE]
    IN  IF sp_file.id \in DOMAIN run.existing_files
        THEN LET same == run.existing_files[sp_file.id].last_modified
                            = sp_file.lastModifiedDateTime
                 text == IF same THEN "Skipped (unchanged)"
                                 ELSE "Skipped (already exists)"
                 st2 == Log(st1, t, "skip", Msg(text, <<>>, ""), sp_file.id)
             IN  LoopFrom([st2 EXCEPT !.run.skipped_count = @ + 1,
                                      !.run.idx = @ + 1], t)
        ELSE [st1 EXCEPT !.run.pc = "download"]

\* what the await of download_file_from_sharepoint and the blocking calls that
\* follow it (Storage.upload_file, Files.insert_new_file,
\* Knowledges.add_file_to_knowledge_by_id) can come to for one item
Outcomes ==
    { "ok", "metadata_failed", "url_missing", "download_failed", "token_expired",
      "no_file_record", "kb_none", "kb_raised" }

\* one outcome of each path through the loop body (raised, no file row, not
\* attached, synced): what the small remote folders draw from
SmallOutcomes == {"ok", "token_expired", "no_file_record", "kb_none"}

\* the outcomes in which download_file_from_sharepoint raises
Raised == {"metadata_failed", "url_missing", "download_failed", "token_expired"}

\* str(e) of the exception an outcome raises
ExcText(outcome) ==
    CASE outcome = "metadata_failed" -> "Failed to get file metadata"
      [] outcome = "url_missing"     -> "Download URL not found in file metadata"
      [] outcome = "download_failed" -> "Failed to download file"
      [] outcome = "token_expired"   ->
            "Access token has expired. Please click Sync again to re-authenticate."
      [] outcome = "kb_raised"       -> "add_file_to_knowledge_by_id raised"
      [] OTHER                       -> ""

\* the loop body that logs a file not attached to the knowledge collection
\* without recording the failure
ItemDoneForgetsFailure(st, t, outcome) ==
    LET run     == st.run
        sp_file == run.files[run.idx]
        name    == sp_file.id
        row     == [ sharepoint_item_id       |-> sp_file.id,
                     sharepoint_last_modified |-> sp_file.lastModifiedDateTime ]
        stored  == [st EXCEPT !.files_db = Append(@, row)]
        file_id == Len(stored.files_db)
        failed(s, error, message) ==
            [Log(s, t, "error", message, name)
                EXCEPT !.run.errors = Append(@, error)]
    IN  CASE outcome \in Raised ->
               failed(st, Msg("Error syncing {}: {}", <<name>>, ExcText(outcome)),
                          Msg("Error: {}", <<>>, ExcText(outcome)))
          [] outcome = "no_file_record" ->
               failed(st, Msg("Failed to create file record for {}", <<name>>, ""),
                          Msg("Failed to create file record", <<>>, ""))
          [] outcome = "kb_none" ->
               Log(stored, t, "error",
                   Msg("Failed to add to knowledge base", <<>>, ""), name)
          [] outcome = "kb_raised" ->
               failed(stored, Msg("Failed to add {}: {}", <<name>>, ExcText(outcome)),
                              Msg("Error: {}", <<>>, ExcText(outcome)))
          [] OTHER ->
               [Log(stored, t, "success", Msg("Synced successfully", <<>>, ""), name)
                   EXCEPT !.knowledge = @ \cup {file_id},
                          !.run.synced_count = @ + 1]

\* lines 502-567: the rest of the loop body of item run.idx once the await of
\* its download is over: the file row, the knowledge attachment, the counters,
\* the errors list and the item's log entry
ItemDone(st, t, outcome) ==
    LET run     == st.run
        sp_file == run.files[run.idx]
        name    == sp_file.id
        row     == [ sharepoint_item_id       |-> sp_file.id,
                     sharepoint_last_modified |-> sp_file.lastModifiedDateTime ]
        stored  == [st EXCEPT !.files_db = Append(@, row)]
        file_id == Len(stored.files_db)
        failed(s, error, message) ==
            [Log(s, t, "error", message, name)
                EXCEPT !.run.errors = Append(@, error)]
    IN  CASE outcome \in Raised ->
               \* except Exception as e (line 564)
               failed(st, Msg("Error syncing {}: {}", <<name>>, ExcText(outcome)),
                          Msg("Error: {}", <<>>, ExcText(outcome)))
          [] outcome = "no_file_record" ->
               failed(st, Msg("Failed to create file record for {}", <<name>>, ""),
                          Msg("Failed to create file record", <<>>, ""))
          [] outcome = "kb_none" ->
               failed(stored, Msg("Failed to add {} to knowledge base", <<name>>, ""),
                              Msg("Failed to add to knowledge base", <<>>, ""))
          [] outcome = "kb_raised" ->
               failed(stored, Msg("Failed to add {}: {}", <<name>>, ExcText(outcome)),
                              Msg("Error: {}", <<>>, ExcText(outcome)))
          [] OTHER ->
               [Log(stored, t, "success", Msg("Synced successfully", <<>>, ""), name)
                   EXCEPT !.knowledge = @ \cup {file_id},
                          !.run.synced_count = @ + 1]

(* ------------------ routers/sharepoint.py: retry_request --------------- *)

\* error.code and error.innerError.code of the JSON body of a 401 response
\* ("" when the member is absent)
Codes ==
    { "", "InvalidAuthenticationToken", "ExpiredAuthenticationToken",
      "token_EXPIRED", "unauthenticated", "Unauthenticated" }

\* str.lower() on the codes
Lower(code) ==
    CASE code = "InvalidAuthenticationToken" -> "invalidauthenticationtoken"
      [] code = "ExpiredAuthenticationToken" -> "expiredauthenticationtoken"
      [] code = "token_EXPIRED"              -> "token_expired"
      [] code = "Unauthenticated"            -> "unauthenticated"
      [] OTHER                               -> code

\* "expired" in text, on the lowered codes
HasExpired(text) == text \in {"expiredauthenticationtoken", "token_expired"}

\* a response body: whether response.json() parses it, and the two codes
NoBody == [json |-> FALSE, code |-> "", inner |-> ""]
Bodies == {NoBody} \cup [json : {TRUE}, code : Codes, inner : Codes]

\* the responses client.get / client.post may return
Responses ==
    [status_code : {401}, content_type : {"application/json"}, body : Bodies]
    \cup [status_code : {200, 404, 429, 500, 503},
          content_type : {"application/json", "text/html; charset=utf-8"},
          body : {NoBody}]

\* "text/html" in content_type
IsHtml(content_type) == content_type = "text/html; charset=utf-8"

\* exceptions: their class and str(e)
NoError == [type |-> "None", text |-> ""]
TimeoutError == [type |-> "TimeoutException", text |-> "timed out"]
ConnectError == [type |-> "ConnectError", text |-> "connection failed"]
TokenExpiredError(text) == [type |-> "TokenExpiredError", text |-> text]
HtmlError ==
    [type |-> "Exception",
     text |-> "SharePoint returned HTML error page after all retries"]

NoResponse == [status_code |-> 0, content_type |-> "", body |-> NoBody]

\* what one attempt comes to: a response, or an exception of the transport
Attempts ==
    [response : Responses, exc : {NoError}]
    \cup [response : {NoResponse}, exc : {TimeoutError, ConnectError}]

\* 2 ** attempt
RECURSIVE Pow2(_)
Pow2(n) == IF n = 0 THEN 1 ELSE 2 * Pow2(n - 1)

\* the local variables of retry_request when no call is in progress
NoCall ==
    [ pc          |-> "idle",
      caller      |-> 0,
      max_retries |-> 0,
      attempt     |-> 0,
      requests    |-> 0,
      sleeps      |-> <<>>,
      last_error  |-> NoError,
      response    |-> NoResponse,
      error       |-> NoError ]

\* the condition of line 260 that takes every 401 for an expired token
ExpiredAlways(body) == TRUE

\* lines 256-262: the body of a 401 parses and carries an expiry code
\* (response.json() raising ValueError is caught at line 262)
Expired(body) ==
    /\ body.json
    /\ \/ HasExpired(Lower(body.code))
       \/ HasExpired(Lower(body.inner))
       \/ body.code = "unauthenticated"

\* raise: the call ends with exception e
Raise(call, e) == [call EXCEPT !.pc = "raised", !.error = e]

\* the backoff that also sleeps after the last attempt and allows one more
BackoffOneMore(call, e) ==
    IF call.attempt < call.max_retries
    THEN [call EXCEPT !.pc = "sleep", !.sleeps = Append(@, Pow2(call.attempt))]
    ELSE Raise(call, e)

\* lines 271-274, 283-286, 289-292: sleep 2 ** attempt and go on with the
\* next attempt unless this was the last one, in which case e is raised
Backoff(call, e) ==
    IF call.attempt < call.max_retries - 1
    THEN [call EXCEPT !.pc = "sleep", !.sleeps = Append(@, Pow2(call.attempt))]
    ELSE Raise(call, e)

\* one iteration without lines 254-264: a 401 is returned to the caller
AttemptReturns401(call, x) ==
    IF x.exc # NoError
    THEN Backoff([call EXCEPT !.last_error = x.exc], x.exc)
    ELSE IF x.response.status_code = 200 /\ IsHtml(x.response.content_type)
    THEN Backoff([call EXCEPT !.last_error =
                     IF call.attempt < call.max_retries - 1 THEN @ ELSE HtmlError],
                 HtmlError)
    ELSE [call EXCEPT !.pc = "returned", !.response = x.response]

\* one iteration that takes a 429 or a 5xx response for a transient error
AttemptRetriesServerErrors(call, x) ==
    LET response == x.response IN
    IF x.exc # NoError
    THEN Backoff([call EXCEPT !.last_error = x.exc], x.exc)
    ELSE IF response.status_code = 401
    THEN Raise(call, TokenExpiredError(
            IF Expired(response.body)
            THEN "Access token has expired. Please click Sync again to re-authenticate."
            ELSE "Authentication failed. Please click Sync again to re-authenticate."))
    ELSE IF \/ response.status_code = 200 /\ IsHtml(response.content_type)
            \/ response.status_code \in {429, 500, 503}
    THEN Backoff([call EXCEPT !.last_error =
                     IF call.attempt < call.max_retries - 1 THEN @ ELSE HtmlError],
                 HtmlError)
    ELSE [call EXCEPT !.pc = "returned", !.response = response]

\* lines 247-292: one iteration of the for loop, from the arrival of the
\* response (or of the exception) of its request to the sleep, the return or
\* the raise.  The exception raised at line 274 is caught at line 287, on the
\* last attempt, and raised again.
Attempt(call, x) ==
    LET response == x.response IN
    IF x.exc # NoError
    THEN Backoff([call EXCEPT !.last_error = x.exc], x.exc)
    ELSE IF response.status_code = 401
    THEN Raise(call, TokenExpiredError(
            IF Expired(response.body)
            THEN "Access token has expired. Please click Sync again to re-authenticate."
            ELSE "Authentication failed. Please click Sync again to re-authenticate."))
    ELSE IF response.status_code = 200 /\ IsHtml(response.content_type)
    THEN Backoff([call EXCEPT !.last_error =
                     IF call.attempt < call.max_retries - 1 THEN @ ELSE HtmlError],
                 HtmlError)
    ELSE [call EXCEPT !.pc = "returned", !.response = response]

\* the exceptions retry_request can raise
ClientErrors ==
    { TokenExpiredError(
        "Access token has expired. Please click Sync again to re-authenticate."),
      TokenExpiredError(
        "Authentication failed. Please click Sync again to re-authenticate."),
      HtmlError, TimeoutError, ConnectError }

\* the exceptions list_folder_contents can raise into the orchestrator
ListingErrors ==
    ClientErrors \cup {[type |-> "Exception", text |-> "Failed to list folder contents"]}

\* a file descriptor of list_folder_contents (the name of an item is its id)
Descriptors == [id : 1..MaxItems, lastModifiedDateTime : 1..MaxStamp]

\* the lists list_folder_contents may return for a small remote folder
Listings ==
    UNION { { s \in [1..n -> Descriptors] :
                \A i, j \in 1..n : i < j => s[i].id < s[j].id } : n \in 0..MaxItems }

\* the lists list_folder_contents may return for the large remote folder: the
\* folder empty, with one file, with all its files, or with every fiftieth
\* of its files (files whose download succeeds, see LongOutcome); every
\* fourth file of the folder carries any of the stamps
LongListings ==
    { [i \in 1..n |-> [id |-> i,
                       lastModifiedDateTime |-> IF i % 4 = 0 THEN v ELSE 1]] :
        n \in {0, 1, LongItems}, v \in 1..MaxStamp }
    \cup
    { [i \in 1..(LongItems \div 50) |->
          [id |-> 50 * i,
           lastModifiedDateTime |-> IF (50 * i) % 4 = 0 THEN v ELSE 1]] :
        v \in 1..MaxStamp }

\* what the download of an item of the large remote folder comes to: every
\* outcome occurs, and two items in ten fail before the sixth item
LongOutcome(id) ==
    CASE id % 10 = 2 -> "metadata_failed"
      [] id % 10 = 3 -> "url_missing"
      [] id % 10 = 5 -> "download_failed"
      [] id % 10 = 6 -> "token_expired"
      [] id % 10 = 7 -> "no_file_record"
      [] id % 10 = 8 -> "kb_raised"
      [] id % 10 = 9 -> "kb_none"
      [] OTHER       -> "ok"

(* -------------- routers/sharepoint.py: list_folder_contents ------------ *)

\* what an item of a children listing is: item.get("folder"),
\* item.get("file"), or neither (a package, a remote item)
Kinds == {"folder", "file", "other"}

NoTree == [kind |-> <<>>, parent |-> <<>>]

\* The remote trees of n items below the root folder 0: kind[i] is the kind
\* of item i and parent[i] the folder that holds it, the root or a folder
\* among the items before i.  A folder lists its children by ascending id.
RECURSIVE TreesOf(_)
TreesOf(n) ==
    IF n = 0 THEN {NoTree}
    ELSE UNION { { [kind |-> Append(t.kind, k), parent |-> Append(t.parent, p)] :
                     k \in Kinds,
                     p \in {0} \cup {f \in 1..(n - 1) : t.kind[f] = "folder"} } :
                 t \in TreesOf(n - 1) }

Trees == UNION { TreesOf(n) : n \in 0..MaxNodes }

\* the children of a folder, in the order the remote lists them
Children(tree, folder) ==
    SelectSeq([i \in 1..Len(tree.kind) |-> i], LAMBDA i : tree.parent[i] = folder)

\* data.get("value", []) of page number page of the children of a folder
PageItems(tree, page_size, folder, page) ==
    LET all == Children(tree, folder)
    IN  SubSeq(all, (page - 1) * page_size + 1, Min(page * page_size, Len(all)))

\* data.get("@odata.nextLink") is present
HasNextLink(tree, page_size, folder, page) ==
    page * page_size < Len(Children(tree, folder))

\* lines 364-373: the descriptor of a file item
Descriptor(item) == [id |-> item, lastModifiedDateTime |-> 1]

\* the local variables of one activation of list_folder_contents: the folder,
\* the page it awaits, the next item of that page, and files
Frame(folder) == [folder |-> folder, page |-> 1, pos |-> 1, files |-> <<>>]

RECURSIVE Walk(_, _, _)

\* the walk that never follows @odata.nextLink
WalkFirstPageOnly(tree, page_size, stack) ==
    LET top   == stack[Len(stack)]
        items == PageItems(tree, page_size, top.folder, top.page)
        rest  == SubSeq(stack, 1, Len(stack) - 1)
    IN  IF top.pos > Len(items)
        THEN IF Len(stack) = 1
             THEN [stack |-> <<>>, done |-> TRUE, files |-> top.files]
             ELSE LET caller == stack[Len(stack) - 1]
                  IN  Walk(tree, page_size,
                           [rest EXCEPT ![Len(rest)].files = caller.files \o top.files])
        ELSE LET item == items[top.pos]
                 next == [stack EXCEPT ![Len(stack)].pos = @ + 1]
             IN  IF tree.kind[item] = "folder"
                 THEN [stack |-> Append(next, Frame(item)), done |-> FALSE,
                       files |-> <<>>]
                 ELSE IF tree.kind[item] = "file"
                 THEN Walk(tree, page_size,
                           [next EXCEPT ![Len(stack)].files =
                                            Append(@, Descriptor(item))])
                 ELSE Walk(tree, page_size, next)

\* lines 353-381: the page awaited by the innermost activation has arrived
\* with status 200; the items are taken in order from top.pos on, up to the
\* next request (the first page of a subfolder, or the next page of this
\* folder) or to the return of the outermost activation.  An activation that
\* returns hands its files to its caller, which extends its own (line 362).
Walk(tree, page_size, stack) ==
    LET top   == stack[Len(stack)]
        items == PageItems(tree, page_size, top.folder, top.page)
        rest  == SubSeq(stack, 1, Len(stack) - 1)
    IN  IF top.pos > Len(items)
        THEN IF HasNextLink(tree, page_size, top.folder, top.page)
             THEN [stack |-> [stack EXCEPT ![Len(stack)].page = @ + 1,
                                           ![Len(stack)].pos = 1],
                   done |-> FALSE, files |-> <<>>]
             ELSE IF Len(stack) = 1
             THEN [stack |-> <<>>, done |-> TRUE, files |-> top.files]
             ELSE LET caller == stack[Len(stack) - 1]
                  IN  Walk(tree, page_size,
                           [rest EXCEPT ![Len(rest)].files = caller.files \o top.files])
        ELSE LET item == items[top.pos]
                 next == [stack EXCEPT ![Len(stack)].pos = @ + 1]
             IN  IF tree.kind[item] = "folder"
                 THEN [stack |-> Append(next, Frame(item)), done |-> FALSE,
                       files |-> <<>>]
                 ELSE IF tree.kind[item] = "file"
                 THEN Walk(tree, page_size,
                           [next EXCEPT ![Len(stack)].files =
                                            Append(@, Descriptor(item))])
                 ELSE Walk(tree, page_size, next)

\* list_folder_contents when no call is in progress
NoListing ==
    [ pc        |-> "idle",
      tree      |-> NoTree,
      page_size |-> 0,
      stack     |-> <<>>,
      requests  |-> 0,
      files     |-> <<>>,
      error     |-> NoError ]

(* ------------ routers/sharepoint.py: download_file_from_sharepoint ------ *)

\* the members of the metadata of an item that the call reads: name and the
\* two members that can hold the download URL ("" when absent or empty)
NoMetadata == [name |-> "", graph_downloadUrl |-> "", content_downloadUrl |-> ""]
Metadata ==
    [name : {"", "a.txt"}, graph_downloadUrl : {"", "graph"},
     content_downloadUrl : {"", "content"}]

\* the status codes of the responses retry_request returns to its caller
ReturnedStatus == {200, 404, 429, 500, 503}

\* the responses to the metadata request
MetadataResponses ==
    [status_code : {200}, json : Metadata]
    \cup [status_code : ReturnedStatus \ {200}, json : {NoMetadata}]

\* the responses to the download request: the bytes, and the content-type
\* header ("" when absent)
NoContent == [content |-> 0, file_name |-> "", content_type |-> ""]
DownloadResponses ==
    [status_code : {200}, content : 1..MaxStamp,
     content_type : {"", "text/plain"}]
    \cup [status_code : ReturnedStatus \ {200}, content : {0}, content_type : {""}]

\* the local variables of download_file_from_sharepoint when no call is in
\* progress; requests is the history of the URLs requested
NoDownload ==
    [ pc                |-> "idle",
      item_id           |-> 0,
      requests          |-> <<>>,
      metadata_response |-> [status_code |-> 0, json |-> NoMetadata],
      file_name         |-> "",
      download_url      |-> "",
      download_status   |-> 0,
      result            |-> NoContent,
      error             |-> NoError ]

\* line 315: the first of the two members that is not empty
DownloadUrl(file_metadata) ==
    IF file_metadata.graph_downloadUrl # "" THEN file_metadata.graph_downloadUrl
    ELSE file_metadata.content_downloadUrl

\* the download requested whatever the status of the metadata response
AfterMetadataUnchecked(call, response) ==
    LET download_url == DownloadUrl(response.json)
        seen == [call EXCEPT !.metadata_response = response]
    IN  IF download_url = ""
        THEN [seen EXCEPT !.pc = "raised",
                  !.error = [type |-> "Exception",
                             text |-> "Download URL not found in file metadata"]]
        ELSE [seen EXCEPT !.pc = "download",
                  !.download_url = download_url,
                  !.requests = Append(@, download_url)]

\* lines 310-325: the metadata request has returned response
AfterMetadata(call, response) ==
    LET file_metadata == response.json
        file_name     == IF file_metadata.name = "" THEN "unknown"
                         ELSE file_metadata.name
        download_url  == DownloadUrl(file_metadata)
        seen          == [call EXCEPT !.metadata_response = response]
    IN  IF response.status_code # 200
        THEN [seen EXCEPT !.pc = "raised",
                  !.error = [type |-> "Exception",
                             text |-> "Failed to get file metadata"]]
        ELSE IF download_url = ""
        THEN [seen EXCEPT !.pc = "raised", !.file_name = file_name,
                  !.error = [type |-> "Exception",
                             text |-> "Download URL not found in file metadata"]]
        ELSE [seen EXCEPT !.pc = "download", !.file_name = file_name,
                  !.download_url = download_url,
                  !.requests = Append(@, download_url)]

\* lines 326-333: the download request has returned response
AfterDownload(call, response) ==
    LET seen == [call EXCEPT !.download_status = response.status_code]
    IN  IF response.status_code # 200
        THEN [seen EXCEPT !.pc = "raised",
                  !.error = [type |-> "Exception",
                             text |-> "Failed to download file"]]
        ELSE [seen EXCEPT !.pc = "returned",
                  !.result = [content      |-> response.content,
                              file_name    |-> call.file_name,
                              content_type |->
                                  IF response.content_type = ""
                                  THEN "application/octet-stream"
                                  ELSE response.content_type]]

\* no list-folder request has been answered
NoPreview == [status_code |-> 0, files |-> <<>>, count |-> 0, detail |-> ""]


(* ------------------- the mailboxes of channels (emails) ----------------- *)

CallIds == 1..MaxCalls

\* the ids of the mailboxes created, in the order of their creation
MailboxIds == 1..MaxMailboxes

\* the channels mailboxes are created for
Channels == {1, 2}

\* no row of the mailbox table; model_id 0 is None, the token 0 was never
\* issued
NoMailbox ==
    [id |-> 0, channel_id |-> 0, webhook_token |-> 0, is_active |-> FALSE,
     model_id |-> 0, email_count |-> 0]

\* insert_new_mailbox: a new id and a new token, the columns' defaults
\* is_active = True and email_count = 0
NewMailbox(id, channel_id, webhook_token, model_id) ==
    [id |-> id, channel_id |-> channel_id, webhook_token |-> webhook_token,
     is_active |-> TRUE, model_id |-> model_id, email_count |-> 0]

\* no row of the email table; the row of call c has id c, message_id 0 is None
NoEmail == [mailbox_id |-> 0, message_id |-> 0, processed |-> FALSE]

\* a webhook call that has not arrived: its token, the mailbox it read, its
\* response, and what it did (how many rows and messages it created, the
\* message id it linked the row to, how many times it raised the count)
NoWebhookCall ==
    [pc |-> "idle", token |-> 0, mailbox |-> NoMailbox, status_code |-> 0,
     detail |-> "", success |-> FALSE, email_id |-> 0, message_id |-> 0,
     emails_created |-> 0, messages_created |-> 0, linked |-> 0, counted |-> 0]

\* the background task of a call: not scheduled
NoAgent ==
    [pc |-> "none", response_message |-> 0, res |-> "", marked |-> FALSE]

\* no request to the mailbox endpoints was answered
NoAnswer == [endpoint |-> "", channel_id |-> 0, status_code |-> 0, detail |-> ""]

\* the tables, the ids and tokens issued so far, the calls and their tasks
NoMail ==
    [mailboxes |-> [i \in MailboxIds |-> NoMailbox],
     created   |-> 0,
     tokens    |-> 0,
     answer    |-> NoAnswer,
     emails    |-> [c \in CallIds |-> NoEmail],
     messages  |-> <<>>,
     calls     |-> [c \in CallIds |-> NoWebhookCall],
     agents    |-> [c \in CallIds |-> NoAgent]]

\* the lookup that takes any mailbox with the token, active or not
get_mailbox_by_webhook_token_any(m, token) ==
    LET found == {i \in MailboxIds : /\ m.mailboxes[i].id # 0
                                     /\ m.mailboxes[i].webhook_token = token}
    IN  IF found = {} THEN NoMailbox
        ELSE m.mailboxes[CHOOSE i \in found : \A j \in found : i <= j]

\* get_mailbox_by_webhook_token: the first mailbox with the token that is
\* active
get_mailbox_by_webhook_token(m, token) ==
    LET found == {i \in MailboxIds : /\ m.mailboxes[i].id # 0
                                     /\ m.mailboxes[i].webhook_token = token
                                     /\ m.mailboxes[i].is_active}
    IN  IF found = {} THEN NoMailbox
        ELSE m.mailboxes[CHOOSE i \in found : \A j \in found : i <= j]

\* get_mailbox_by_channel_id: the first mailbox of the channel
get_mailbox_by_channel_id(m, channel_id) ==
    LET found == {i \in MailboxIds : /\ m.mailboxes[i].id # 0
                                     /\ m.mailboxes[i].channel_id = channel_id}
    IN  IF found = {} THEN NoMailbox
        ELSE m.mailboxes[CHOOSE i \in found : \A j \in found : i <= j]

\* get_mailbox_by_id
get_mailbox_by_id(m, id) ==
    IF id \in MailboxIds /\ m.mailboxes[id].id # 0 THEN m.mailboxes[id] ELSE NoMailbox

\* increment_email_count: nothing when the mailbox is gone
increment_email_count(m, id) ==
    IF get_mailbox_by_id(m, id).id # 0
    THEN [m EXCEPT !.mailboxes[id].email_count = @ + 1]
    ELSE m

\* update_email_message_id: nothing when the row is gone
update_email_message_id(m, id, message_id) ==
    IF m.emails[id].mailbox_id # 0
    THEN [m EXCEPT !.emails[id].message_id = message_id]
    ELSE m

\* update_email_processed: nothing when the row is gone
update_email_processed(m, id, processed) ==
    IF m.emails[id].mailbox_id # 0
    THEN [m EXCEPT !.emails[id].processed = processed]
    ELSE m

\* delete_emails_by_mailbox_id
delete_emails_by_mailbox_id(m, mailbox_id) ==
    [m EXCEPT !.emails = [c \in CallIds |->
                             IF m.emails[c].mailbox_id = mailbox_id
                             THEN NoEmail ELSE m.emails[c]]]

\* Messages.insert_new_message: the message gets the next id
insert_new_message(m, channel_id, content, parent_id, email_id) ==
    [m EXCEPT !.messages = Append(@, [channel_id |-> channel_id,
                                      parent_id |-> parent_id, email_id |-> email_id,
                                      content |-> content, done |-> FALSE])]

\* what the collaborators of the webhook do in a call: the channel or the
\* owner is missing, insert_new_email raises, insert_new_message returns a
\* message, returns None or raises
WebhookOutcomes ==
    {"message", "no_message", "message_raises", "email_raises",
     "channel_missing", "owner_missing"}

\* the results of generate_chat_completion: choices, an error, a result with
\* neither, nothing
CompletionResults == {"choices", "error", "empty", "none"}

(* --------------------- the endpoints of a job and their callers -------- *)

\* the callers: the owner of the job, another user, an admin
Users ==
    { [id |-> 1, role |-> "user"], [id |-> 2, role |-> "user"],
      [id |-> 3, role |-> "admin"] }

\* what has_access answers for the caller's groups and the access_control of
\* the job, for each permission
Grants == [read : BOOLEAN, write : BOOLEAN]

\* SharePointSyncUpdateRequest: name and access_control, None when the
\* request does not supply them
UpdateRequests == [name : {"None", "b"}, access_control : {"None", "shared"}]

\* no request was made yet; supplied are the fields an update request gives,
\* data tells whether the answer carries the row
NoRequest ==
    [endpoint |-> "", user |-> 0, granted |-> FALSE, supplied |-> {},
     status_code |-> 0, detail |-> "", data |-> FALSE, deleted |-> FALSE]

\* has_access_to_sync: the owner has access, anyone else what has_access says
has_access_to_sync(sync, user_id, permission, grants) ==
    IF sync.user_id = user_id THEN TRUE ELSE grants[permission]

\* the check of the endpoints: owner, admin, or permission on the job
Permitted(sync, user, permission, grants) ==
    \/ sync.user_id = user.id
    \/ user.role = "admin"
    \/ has_access_to_sync(sync, user.id, permission, grants)

\* the answer of an endpoint to a request
Answer(endpoint, user, granted, status_code, detail, data) ==
    [api EXCEPT !.endpoint = endpoint, !.user = user.id, !.granted = granted,
                !.supplied = {}, !.status_code = status_code, !.detail = detail, !.data = data]

(* ------------------------------ actions -------------------------------- *)

Init ==
    /\ now = 1
    /\ job = NewSync(1)
    /\ files_db = <<>>
    /\ knowledge = {}
    /\ runs = [r \in RunIds |-> NoRun]
    /\ nruns = 0
    /\ resp = [status |-> TRUE, message |-> ""]
    /\ appended = <<>>
    /\ rq = NoCall
    /\ ls = NoListing
    /\ dl = NoDownload
    /\ store = [ok |-> TRUE, faults |-> 0]
    /\ preview = NoPreview
    /\ mail = NoMail
    /\ api = NoRequest

\* one segment of orchestrator task r has run and left st
Commit(r, st) ==
    /\ job' = st.job
    /\ runs' = [runs EXCEPT ![r] = st.run]
    /\ appended' = st.app
    /\ files_db' = st.files_db
    /\ knowledge' = st.knowledge

\* execute_sharepoint_sync without the check of lines 635-641
StartRunUnguarded ==
    /\ nruns < MaxRuns
    /\ now' = now + 1
    /\ job' = update_sync_by_id(job, now',
                 [ sync_status   |-> "syncing",
                   sync_error    |-> ErrNone,
                   sync_progress |-> 0,
                   sync_total    |-> 0 ])
    /\ nruns' = nruns + 1
    /\ runs' = [runs EXCEPT ![nruns + 1] = [NoRun EXCEPT !.pc = "pending"]]
    /\ resp' = [status |-> TRUE, message |-> "Sync started in background"]
    /\ UNCHANGED <<files_db, knowledge, appended, rq, ls, sidevars>>

\* execute_sharepoint_sync, POST /{id}/sync
StartRun ==
    IF job.sync_status = "syncing"
    THEN /\ resp' = [status |-> TRUE, message |-> "Sync already in progress"]
         /\ UNCHANGED <<job, files_db, knowledge, runs, nruns, now, appended, rq, ls, sidevars>>
    ELSE /\ nruns < MaxRuns
         /\ now' = now + 1
         /\ job' = update_sync_by_id(job, now',
                      [ sync_status   |-> "syncing",
                        sync_error    |-> ErrNone,
                        sync_progress |-> 0,
                        sync_total    |-> 0 ])
         /\ nruns' = nruns + 1
         /\ runs' = [runs EXCEPT ![nruns + 1] = [NoRun EXCEPT !.pc = "pending"]]
         /\ resp' = [status |-> TRUE, message |-> "Sync started in background"]
         /\ UNCHANGED <<files_db, knowledge, appended, rq, ls, sidevars>>

\* cancel_sharepoint_sync without the check of lines 180-181
CancelUnguarded ==
    /\ job' = update_sync_by_id(job, now,
                 [ sync_status |-> "cancelled",
                   sync_error  |-> ErrText("Sync was cancelled by user") ])
    /\ resp' = [status |-> TRUE, message |-> "Sync cancelled"]
    /\ UNCHANGED <<files_db, knowledge, runs, nruns, now, appended, rq, ls, sidevars>>

\* cancel_sharepoint_sync, POST /{id}/cancel
Cancel ==
    IF job.sync_status # "syncing"
    THEN /\ resp' = [status |-> FALSE, message |-> "Sync is not running"]
         /\ UNCHANGED <<job, files_db, knowledge, runs, nruns, now, appended, rq, ls, sidevars>>
    ELSE /\ job' = update_sync_by_id(job, now,
                      [ sync_status |-> "cancelled",
                        sync_error  |-> ErrText("Sync was cancelled by user") ])
         /\ resp' = [status |-> TRUE, message |-> "Sync cancelled"]
         /\ runs' = [r \in RunIds |->
                       IF runs[r].pc = "download"
                       THEN [runs[r] EXCEPT !.cancel_seen = TRUE] ELSE runs[r]]
         /\ UNCHANGED <<files_db, knowledge, nruns, now, appended, rq, ls, sidevars>>

\* the start of the task without the reset of line 436: the entries are
\* appended to the logs of the previous run
RunBeginKeepsLogs(r) ==
    /\ runs[r].pc = "pending"
    /\ LET st1 == Log(Seg(r), now, "info", Msg("Sync started", <<>>, ""), NoFile)
           existing_files == get_existing_sharepoint_files(files_db)
           n   == Cardinality(DOMAIN existing_files)
           st2 == Log(st1, now, "info",
                      Msg("Found {} existing synced files", <<n>>, ""), NoFile)
       IN  Commit(r, [st2 EXCEPT !.run.existing_files = existing_files,
                                 !.run.pc = "listing"])
    /\ UNCHANGED <<nruns, now, resp, rq, ls, sidevars>>

\* run_sync_in_background lines 434-450: from the start of the task to the
\* await of list_folder_contents
RunBegin(r) ==
    /\ runs[r].pc = "pending"
    /\ LET st0 == Update(Seg(r), now, [sync_logs |-> <<>>])
           st1 == Log(st0, now, "info", Msg("Sync started", <<>>, ""), NoFile)
           existing_files == get_existing_sharepoint_files(files_db)
           n   == Cardinality(DOMAIN existing_files)
           st2 == Log(st1, now, "info",
                      Msg("Found {} existing synced files", <<n>>, ""), NoFile)
       IN  Commit(r, [st2 EXCEPT !.run.existing_files = existing_files,
                                 !.run.pc = "listing"])
    /\ UNCHANGED <<nruns, now, resp, rq, ls, sidevars>>

\* lines 452-500: list_folder_contents returned files; the log entry, the
\* total, and the loop up to its first await or to the return
ListingOk(r, files) ==
    /\ runs[r].pc = "listing"
    /\ LET st1 == Log(Seg(r), now, "info",
                      Msg("Found {} files in SharePoint folder", <<Len(files)>>, ""),
                      NoFile)
           st2 == Update(st1, now, [sync_total |-> Len(files), sync_progress |-> 0])
       IN  Commit(r, LoopFrom([st2 EXCEPT !.run.files = files, !.run.idx = 1], now))
    /\ UNCHANGED <<nruns, now, resp, rq, ls, sidevars>>

\* a failure of list_folder_contents taken for an empty folder
ListingFailSwallowed(r, e) == ListingOk(r, <<>>)

\* the handlers of lines 588-607 stamping the failed run as a sync
ListingFailStampsRun(r, e) ==
    /\ runs[r].pc = "listing"
    /\ LET st1 == Update(Log(Seg(r), now, "error",
                             Msg("Sync failed: {}", <<>>, e.text), NoFile),
                         now,
                         [ sync_status  |-> IF e.type = "TokenExpiredError"
                                            THEN "token_expired" ELSE "error",
                           sync_error   |-> ErrText(e.text),
                           last_sync_at |-> now,
                           file_count   |-> 0 ])
       IN  Commit(r, [st1 EXCEPT !.run.pc = "done",
                        !.run.exit = IF e.type = "TokenExpiredError"
                                     THEN "token_expired" ELSE "error"])
    /\ UNCHANGED <<nruns, now, resp, rq, ls, sidevars>>

\* lines 588-607: list_folder_contents raised e
ListingFail(r, e) ==
    /\ runs[r].pc = "listing"
    /\ LET st1 == IF e.type = "TokenExpiredError"
                  THEN Update(Log(Seg(r), now, "error",
                                  Msg("Token expired - please click Sync to re-authenticate",
                                      <<>>, ""), NoFile),
                              now,
                              [ sync_status |-> "token_expired",
                                sync_error  |-> ErrText(
                "Access token expired. Please click Sync again to re-authenticate.") ])
                  ELSE Update(Log(Seg(r), now, "error",
                                  Msg("Sync failed: {}", <<>>, e.text), NoFile),
                              now,
                              [ sync_status |-> "error",
                                sync_error  |-> ErrText(e.text) ])
       IN  Commit(r, [st1 EXCEPT !.run.pc = "done",
                        !.run.exit = IF e.type = "TokenExpiredError"
                                     THEN "token_expired" ELSE "error"])
    /\ UNCHANGED <<nruns, now, resp, rq, ls, sidevars>>

\* the loop body without its try/except: a failure of an item reaches the
\* handler of line 598 and ends the run
DownloadDoneFailureFatal(r, outcome) ==
    /\ runs[r].pc = "download"
    /\ IF outcome = "ok"
       THEN LET st1 == ItemDone(Seg(r), now, outcome)
            IN  Commit(r, LoopFrom([st1 EXCEPT !.run.pc = "loop", !.run.idx = @ + 1],
                                   now))
       ELSE LET st1 == Update(Log(Seg(r), now, "error",
                                  Msg("Sync failed: {}", <<>>, ExcText(outcome)), NoFile),
                              now,
                              [ sync_status |-> "error",
                                sync_error  |-> ErrText(ExcText(outcome)) ])
            IN  Commit(r, [st1 EXCEPT !.run.pc = "done", !.run.exit = "error",
                                      !.run.idx = @ + 1])
    /\ UNCHANGED <<nruns, now, resp, rq, ls, sidevars>>

\* lines 502-567 and the loop after them: the download of item run.idx is
\* over with the given outcome; the item is finished and the loop goes on up
\* to its next await or to the return
DownloadDone(r, outcome) ==
    /\ runs[r].pc = "download"
    /\ LET st1 == ItemDone(Seg(r), now, outcome)
       IN  Commit(r, LoopFrom([st1 EXCEPT !.run.pc = "loop", !.run.idx = @ + 1], now))
    /\ UNCHANGED <<nruns, now, resp, rq, ls, sidevars>>

\* Synchronisation with the requests of the orchestrator abstracted to their
\* outcomes: no call of retry_request is followed.
Next ==
    \/ StartRun
    \/ Cancel
    \/ \E r \in RunIds : RunBegin(r)
    \/ \E r \in RunIds, files \in Listings : ListingOk(r, files)
    \/ \E r \in RunIds, e \in ListingErrors : ListingFail(r, e)
    \/ \E r \in RunIds, outcome \in SmallOutcomes : DownloadDone(r, outcome)

Spec == Init /\ [][Next]_vars

\* The large remote folder is synchronised by one task at a time: a start-run
\* request is made while the job reads syncing (and is rejected), or when every
\* dispatched task has returned and the job does not read cancelled.
StartLong ==
    /\ \/ job.sync_status = "syncing"
       \/ /\ job.sync_status # "cancelled"
          /\ \A r \in RunIds : runs[r].pc \in {"unused", "done"}
    /\ StartRun

NextLong ==
    \/ StartLong
    \/ Cancel
    \/ \E r \in RunIds : RunBegin(r)
    \/ \E r \in RunIds, files \in LongListings : ListingOk(r, files)
    \/ \E r \in RunIds, e \in ListingErrors : ListingFail(r, e)
    \/ \E r \in RunIds :
          /\ runs[r].pc = "download"
          /\ DownloadDone(r, LongOutcome(runs[r].files[runs[r].idx].id))

SpecLong == Init /\ [][NextLong]_vars

(* ------------- synchronisation while SharePointSyncs can fail ---------- *)

\* get_sync_by_id and update_sync_by_id catch the exception of their session
\* and return None: from here on they do so
StoreFails ==
    /\ store.ok
    /\ store.faults < MaxFaults
    /\ store' = [ok |-> FALSE, faults |-> store.faults + 1]
    /\ UNCHANGED <<syncvars, rq, ls, dl, preview, mail, api>>

StoreRecovers ==
    /\ ~store.ok
    /\ store' = [store EXCEPT !.ok = TRUE]
    /\ UNCHANGED <<syncvars, rq, ls, dl, preview, mail, api>>

\* routers/sharepoint.py lines 619-625 and 169-175: a start-run or cancel
\* request for which get_sync_by_id returns None is answered 404
NotFound ==
    /\ ~store.ok
    /\ resp' = [status |-> FALSE, message |-> "NOT_FOUND"]
    /\ UNCHANGED <<job, files_db, knowledge, runs, nruns, now, appended, rq, ls, sidevars>>

\* a start-run request and a cancel request that find the row
StartFound ==
    /\ store.ok
    /\ StartLong

CancelFound ==
    /\ store.ok
    /\ Cancel

\* one failure of the listing of each handler (lines 588 and 598), and one
\* outcome of an item of each kind (synced, failed)
FaultErrors ==
    { TokenExpiredError(
        "Access token has expired. Please click Sync again to re-authenticate."),
      TimeoutError }
FaultOutcomes == {"ok", "download_failed"}

\* the steps of the orchestrator tasks
TaskStep ==
    \/ \E r \in RunIds : RunBegin(r)
    \/ \E r \in RunIds, files \in Listings : ListingOk(r, files)
    \/ \E r \in RunIds, e \in FaultErrors : ListingFail(r, e)
    \/ \E r \in RunIds, outcome \in FaultOutcomes : DownloadDone(r, outcome)

NextFaults ==
    \/ StartFound
    \/ CancelFound
    \/ NotFound
    \/ StoreFails
    \/ StoreRecovers
    \/ \E r \in RunIds : RunBegin(r)
    \/ \E r \in RunIds, files \in Listings : ListingOk(r, files)
    \/ \E r \in RunIds, e \in FaultErrors : ListingFail(r, e)
    \/ \E r \in RunIds, outcome \in FaultOutcomes : DownloadDone(r, outcome)

\* The event loop runs a dispatched task, and every remote and storage call
\* the task awaits returns or raises: a task that can take a step takes it.
SpecFaults == Init /\ [][NextFaults]_vars /\ WF_vars(TaskStep)

(* ----------------------- calls of retry_request ------------------------ *)

\* retry_request is called with max_retries; the request of its first
\* attempt is sent
NewCall(caller, max_retries) ==
    [NoCall EXCEPT !.pc = "request", !.caller = caller,
                   !.max_retries = max_retries, !.requests = 1]

\* a call of retry_request from outside the orchestrator
Call(max_retries) ==
    /\ rq.pc = "idle"
    /\ rq' = NewCall(0, max_retries)
    /\ UNCHANGED <<syncvars, ls, sidevars>>

\* line 347: list_folder_contents of task r requests the children of the
\* folder of the job
ListCall(r) ==
    /\ rq.pc = "idle"
    /\ runs[r].pc = "listing"
    /\ rq' = NewCall(r, DefaultRetries)
    /\ UNCHANGED <<syncvars, ls, sidevars>>

\* the request of the current attempt is over: x is its response or exception
Respond(x) ==
    /\ rq.pc = "request"
    /\ rq' = Attempt(rq, x)
    /\ UNCHANGED <<syncvars, ls, sidevars>>

\* asyncio.sleep is over: the next iteration sends its request
Wake ==
    /\ rq.pc = "sleep"
    /\ rq' = [rq EXCEPT !.pc = "request", !.attempt = @ + 1, !.requests = @ + 1]
    /\ UNCHANGED <<syncvars, ls, sidevars>>

\* lines 347-357 and 444-450: the call made for task r returned; the folder
\* of the job is empty, so a 200 response lists no item and has no next page
ListReturn(r) ==
    /\ rq.pc = "returned"
    /\ rq.caller = r
    /\ IF rq.response.status_code # 200
       THEN ListingFail(r, [type |-> "Exception",
                            text |-> "Failed to list folder contents"])
       ELSE ListingOk(r, <<>>)

\* the call made for task r raised: list_folder_contents lets the exception
\* through to the orchestrator
ListRaise(r) ==
    /\ rq.pc = "raised"
    /\ rq.caller = r
    /\ ListingFail(r, rq.error)

\* the caller is done with the result of the call
CallEnds ==
    /\ rq.pc \in {"returned", "raised"}
    /\ rq.caller # 0 => runs[rq.caller].pc = "done"
    /\ rq' = NoCall
    /\ UNCHANGED <<syncvars, ls, sidevars>>

\* retry_request, called on its own and by the folder listing of a job whose
\* remote folder is empty; one orchestrator task at a time
NextRetry ==
    \/ \E max_retries \in 1..MaxRetries : Call(max_retries)
    \/ \E r \in RunIds : ListCall(r)
    \/ \E x \in Attempts : Respond(x)
    \/ Wake
    \/ \E r \in RunIds : ListReturn(r)
    \/ \E r \in RunIds : ListRaise(r)
    \/ CallEnds
    \/ StartLong
    \/ \E r \in RunIds : RunBegin(r)

SpecRetry == Init /\ [][NextRetry]_vars

(* -------------------- calls of list_folder_contents -------------------- *)

\* list_folder_contents is called on the root folder of a remote tree whose
\* listings come in pages of page_size items; the first page is requested
ListStart ==
    /\ ls.pc = "idle"
    /\ \E tree \in Trees, page_size \in 1..MaxPage :
          ls' = [NoListing EXCEPT !.pc = "page", !.tree = tree,
                                  !.page_size = page_size,
                                  !.stack = <<Frame(0)>>, !.requests = 1]
    /\ UNCHANGED <<syncvars, rq, sidevars>>

\* retry_request returned the awaited page with status 200
PageOk ==
    /\ ls.pc = "page"
    /\ LET w == Walk(ls.tree, ls.page_size, ls.stack)
       IN  ls' = [ls EXCEPT !.stack = w.stack,
                            !.pc = IF w.done THEN "returned" ELSE "page",
                            !.requests = IF w.done THEN @ ELSE @ + 1,
                            !.files = w.files]
    /\ UNCHANGED <<syncvars, rq, sidevars>>

\* a failure that hands the caller the files the outermost activation has
\* collected so far
PageFailKeepsFiles(e) ==
    /\ ls.pc = "page"
    /\ ls' = [ls EXCEPT !.pc = "raised", !.files = ls.stack[1].files,
                         !.stack = <<>>, !.error = e]
    /\ UNCHANGED <<syncvars, rq, sidevars>>

\* lines 347-354: retry_request raised e, or returned a response whose status
\* is not 200: the exception leaves every activation
PageFail(e) ==
    /\ ls.pc = "page"
    /\ ls' = [ls EXCEPT !.pc = "raised", !.stack = <<>>, !.error = e]
    /\ UNCHANGED <<syncvars, rq, sidevars>>

\* the caller is done with the result of the call
ListEnds ==
    /\ ls.pc \in {"returned", "raised"}
    /\ ls' = NoListing
    /\ UNCHANGED <<syncvars, rq, sidevars>>

NextList ==
    \/ ListStart
    \/ PageOk
    \/ \E e \in ListingErrors : PageFail(e)
    \/ ListEnds

SpecList == Init /\ [][NextList]_vars

(* ------------- list_sharepoint_folder, POST /list-folder --------------- *)

\* lines 714-720: the request arrives and list_folder_contents is called
PreviewStart ==
    /\ ls.pc = "idle"
    /\ \E tree \in UNION { TreesOf(n) : n \in 0..PreviewNodes },
          page_size \in 1..MaxPage :
          ls' = [NoListing EXCEPT !.pc = "page", !.tree = tree,
                                  !.page_size = page_size,
                                  !.stack = <<Frame(0)>>, !.requests = 1]
    /\ preview' = NoPreview
    /\ UNCHANGED <<syncvars, rq, dl, store, mail, api>>

\* an endpoint that keeps the count of the listing as the total of the job
PreviewReturnStoresTotal ==
    /\ ls.pc \in {"returned", "raised"}
    /\ preview' = IF ls.pc = "returned"
                  THEN [status_code |-> 200, files |-> ls.files,
                        count |-> Len(ls.files), detail |-> ""]
                  ELSE [status_code |-> 500, files |-> <<>>, count |-> 0,
                        detail |-> ls.error.text]
    /\ ls' = NoListing
    /\ job' = update_sync_by_id(job, now, [sync_total |-> Len(ls.files)])
    /\ UNCHANGED <<files_db, knowledge, runs, nruns, now, resp, appended, rq, dl, store, mail, api>>

\* lines 721-726: the listing is returned with its count, or the exception
\* is turned into a 500 response with str(e)
PreviewReturn ==
    /\ ls.pc \in {"returned", "raised"}
    /\ preview' = IF ls.pc = "returned"
                  THEN [status_code |-> 200, files |-> ls.files,
                        count |-> Len(ls.files), detail |-> ""]
                  ELSE [status_code |-> 500, files |-> <<>>, count |-> 0,
                        detail |-> ls.error.text]
    /\ ls' = NoListing
    /\ UNCHANGED <<syncvars, rq, dl, store, mail, api>>

\* previews requested while the job is started, cancelled and its task
\* begins
NextPreview ==
    \/ PreviewStart
    \/ PageOk
    \/ \E e \in ListingErrors : PageFail(e)
    \/ PreviewReturn
    \/ StartLong
    \/ Cancel
    \/ \E r \in RunIds : RunBegin(r)

SpecPreview == Init /\ [][NextPreview]_vars

(* -------- the calls of download_file_from_sharepoint, on their own ------ *)

\* lines 302-308: the call requests the metadata of the item
DownloadStart ==
    /\ dl.pc = "idle"
    /\ \E item_id \in 1..MaxItems :
          dl' = [NoDownload EXCEPT !.pc = "metadata", !.item_id = item_id,
                                   !.requests = <<"metadata">>]
    /\ UNCHANGED <<syncvars, rq, ls, store, preview, mail, api>>

\* retry_request returns the response to the metadata request
MetadataReturns ==
    /\ dl.pc = "metadata"
    /\ \E response \in MetadataResponses : dl' = AfterMetadata(dl, response)
    /\ UNCHANGED <<syncvars, rq, ls, store, preview, mail, api>>

\* retry_request returns the response to the download request
DownloadReturns ==
    /\ dl.pc = "download"
    /\ \E response \in DownloadResponses : dl' = AfterDownload(dl, response)
    /\ UNCHANGED <<syncvars, rq, ls, store, preview, mail, api>>

\* retry_request raises in either request: the call does not catch it
RequestRaises ==
    /\ dl.pc \in {"metadata", "download"}
    /\ \E e \in ClientErrors : dl' = [dl EXCEPT !.pc = "raised", !.error = e]
    /\ UNCHANGED <<syncvars, rq, ls, store, preview, mail, api>>

\* the caller is done with the result of the call
DownloadEnds ==
    /\ dl.pc \in {"returned", "raised"}
    /\ dl' = NoDownload
    /\ UNCHANGED <<syncvars, rq, ls, store, preview, mail, api>>

NextDownload ==
    \/ DownloadStart
    \/ MetadataReturns
    \/ DownloadReturns
    \/ RequestRaises
    \/ DownloadEnds

SpecDownload == Init /\ [][NextDownload]_vars

(* ------------------ the webhook of a mailbox and its task --------------- *)

\* the call answers with an HTTP error
Rejected(m, c, status_code, detail) ==
    [m EXCEPT !.calls[c].pc = "done", !.calls[c].status_code = status_code,
              !.calls[c].detail = detail]

\* lines 476-567 of receive_email_webhook, up to the response or to the
\* await of the emit: the mailbox, the channel and the owner are looked up,
\* the email row is inserted, the message is posted and the row linked to it
receive_email_webhook(m0, c, token, outcome) ==
    LET m == [m0 EXCEPT !.calls[c].token = token]
        mailbox == get_mailbox_by_webhook_token(m, token)
        m1 == [m EXCEPT !.calls[c].mailbox = mailbox,
                        !.calls[c].email_id = c,
                        !.calls[c].emails_created = @ + 1,
                        !.emails[c] = [NoEmail EXCEPT !.mailbox_id = mailbox.id]]
        m2 == insert_new_message(m1, mailbox.channel_id, "email", 0, c)
    IN  IF mailbox.id = 0
        THEN Rejected(m, c, 404, "Invalid webhook token or mailbox inactive")
        ELSE IF outcome = "channel_missing"
        THEN Rejected(m, c, 404, "Associated channel not found")
        ELSE IF outcome = "owner_missing"
        THEN Rejected(m, c, 404, "Mailbox owner not found")
        ELSE IF outcome = "email_raises"
        THEN Rejected(m, c, 500, "str(e)")
        ELSE IF outcome = "message_raises"
        THEN Rejected(m1, c, 500, "str(e)")
        ELSE IF outcome = "no_message"
        THEN [m1 EXCEPT !.calls[c].pc = "done",
                        !.calls[c].status_code = 200,
                        !.calls[c].success = TRUE]
        ELSE [update_email_message_id(m2, c, Len(m2.messages))
                 EXCEPT !.calls[c].pc = "emit",
                        !.calls[c].message_id = Len(m2.messages),
                        !.calls[c].messages_created = @ + 1,
                        !.calls[c].linked = Len(m2.messages)]

\* a webhook call arrives with a token that was issued, or with one that
\* never was
WebhookArrives(c) ==
    /\ mail.calls[c].pc = "idle"
    /\ \E token \in 0..mail.tokens, outcome \in WebhookOutcomes :
          mail' = receive_email_webhook(mail, c, token, outcome)
    /\ UNCHANGED <<syncvars, rq, ls, dl, store, preview, api>>

\* a webhook call whose collaborators all succeed
WebhookPosts(c) ==
    /\ mail.calls[c].pc = "idle"
    /\ \E token \in 0..mail.tokens :
          mail' = receive_email_webhook(mail, c, token, "message")
    /\ UNCHANGED <<syncvars, rq, ls, dl, store, preview, api>>

\* lines 569-588: the emit returned; the count of the mailbox is raised, the
\* task is scheduled if the mailbox the call read has a model, and the call
\* answers success
EmitReturns(c) ==
    /\ mail.calls[c].pc = "emit"
    /\ LET call == mail.calls[c]
           m1 == increment_email_count(mail, call.mailbox.id)
       IN  mail' = [m1 EXCEPT !.calls[c].pc = "done",
                              !.calls[c].status_code = 200,
                              !.calls[c].success = TRUE,
                              !.calls[c].counted = IF m1 = mail THEN @ ELSE @ + 1,
                              !.agents[c].pc = IF call.mailbox.model_id # 0
                                               THEN "scheduled" ELSE @]
    /\ UNCHANGED <<syncvars, rq, ls, dl, store, preview, api>>

\* lines 592-597: the emit raised; the call answers 500
EmitRaises(c) ==
    /\ mail.calls[c].pc = "emit"
    /\ mail' = Rejected(mail, c, 500, "str(e)")
    /\ UNCHANGED <<syncvars, rq, ls, dl, store, preview, api>>

\* lines 314-321 of process_email_with_agent: the task starts and awaits the
\* models
AgentBegins(c) ==
    /\ mail.agents[c].pc = "scheduled"
    /\ mail' = [mail EXCEPT !.agents[c].pc =
                   IF mail.calls[c].mailbox.model_id = 0 THEN "done" ELSE "models"]
    /\ UNCHANGED <<syncvars, rq, ls, dl, store, preview, api>>

\* lines 323-372: the model is missing and the task returns, or the response
\* message is inserted under the email's message and emitted; when no message
\* comes back the task goes on to the completion
ModelsReturn(c) ==
    /\ mail.agents[c].pc = "models"
    /\ \E found \in BOOLEAN, inserted \in BOOLEAN :
          LET m1 == insert_new_message(mail, mail.calls[c].mailbox.channel_id, "",
                                       mail.calls[c].message_id, c)
          IN  mail' = IF ~found
                      THEN [mail EXCEPT !.agents[c].pc = "done"]
                      ELSE IF inserted
                      THEN [m1 EXCEPT !.agents[c].pc = "emit_initial",
                                      !.agents[c].response_message = Len(m1.messages)]
                      ELSE [mail EXCEPT !.agents[c].pc = "completion"]
    /\ UNCHANGED <<syncvars, rq, ls, dl, store, preview, api>>

\* lines 375-400: the first emit returned; the task awaits the completion
InitialEmitReturns(c) ==
    /\ mail.agents[c].pc = "emit_initial"
    /\ mail' = [mail EXCEPT !.agents[c].pc = "completion"]
    /\ UNCHANGED <<syncvars, rq, ls, dl, store, preview, api>>

\* lines 402-434: with a result and a response message, the message is
\* updated with the content and the update is emitted; otherwise the task is
\* over
AfterCompletion(m, c, res) ==
    LET agent == m.agents[c] IN
    IF res # "none" /\ agent.response_message # 0
    THEN [m EXCEPT !.agents[c].pc = "emit_update",
                   !.agents[c].res = res,
                   !.messages[agent.response_message].content =
                       IF res = "choices" THEN "content"
                       ELSE IF res = "error" THEN "Error analyzing email: {}"
                       ELSE "",
                   !.messages[agent.response_message].done = TRUE]
    ELSE [m EXCEPT !.agents[c].pc = "done"]

\* generate_chat_completion returns
CompletionReturns(c) ==
    /\ mail.agents[c].pc = "completion"
    /\ \E res \in CompletionResults : mail' = AfterCompletion(mail, c, res)
    /\ UNCHANGED <<syncvars, rq, ls, dl, store, preview, api>>

\* lines 436-441: the update was emitted; the email is marked processed
UpdateEmitReturns(c) ==
    /\ mail.agents[c].pc = "emit_update"
    /\ mail' = [update_email_processed(mail, c, TRUE)
                   EXCEPT !.agents[c].pc = "done",
                          !.agents[c].marked = mail.emails[c].mailbox_id # 0]
    /\ UNCHANGED <<syncvars, rq, ls, dl, store, preview, api>>

\* lines 443-444: an await of the task raises; the exception is logged
AgentRaises(c) ==
    /\ mail.agents[c].pc \in {"models", "emit_initial", "completion", "emit_update"}
    /\ mail' = [mail EXCEPT !.agents[c].pc = "done"]
    /\ UNCHANGED <<syncvars, rq, ls, dl, store, preview, api>>

\* the answer of a mailbox endpoint
Answered(m, endpoint, channel_id, status_code, detail) ==
    [m EXCEPT !.answer = [endpoint |-> endpoint, channel_id |-> channel_id,
                          status_code |-> status_code, detail |-> detail]]

\* create_mailbox without the check of lines 102-108
create_mailbox_unchecked(m, channel_id, model_id) ==
    [Answered(m, "create", channel_id, 200, "")
        EXCEPT !.mailboxes[m.created + 1] =
                   NewMailbox(m.created + 1, channel_id, m.tokens + 1, model_id),
               !.created = @ + 1,
               !.tokens = @ + 1]

\* create_mailbox, lines 93-117: refused when the channel has a mailbox;
\* otherwise the mailbox is inserted with a new id and a new token
create_mailbox(m, channel_id, model_id) ==
    IF get_mailbox_by_channel_id(m, channel_id).id # 0
    THEN Answered(m, "create", channel_id, 400,
                  "A mailbox already exists for this channel")
    ELSE [Answered(m, "create", channel_id, 200, "")
             EXCEPT !.mailboxes[m.created + 1] =
                        NewMailbox(m.created + 1, channel_id, m.tokens + 1, model_id),
                    !.created = @ + 1,
                    !.tokens = @ + 1]

\* POST /create for a channel; only the mailboxes inserted are bounded
CreateMailbox ==
    /\ \E channel_id \in Channels, model_id \in 0..1 :
          /\ \/ mail.created < MaxMailboxes
             \/ get_mailbox_by_channel_id(mail, channel_id).id # 0
          /\ mail' = create_mailbox(mail, channel_id, model_id)
    /\ UNCHANGED <<syncvars, rq, ls, dl, store, preview, api>>

\* POST /create for channel 1
CreateMailboxOfChannel ==
    /\ \/ mail.created < MaxMailboxes
       \/ get_mailbox_by_channel_id(mail, 1).id # 0
    /\ \E model_id \in 0..1 : mail' = create_mailbox(mail, 1, model_id)
    /\ UNCHANGED <<syncvars, rq, ls, dl, store, preview, api>>

\* update_mailbox, lines 157-189: update_mailbox_by_id writes the values that
\* are not None
UpdateMailbox ==
    /\ \E id \in MailboxIds, is_active \in BOOLEAN, model_id \in 0..1 :
          LET mailbox == get_mailbox_by_id(mail, id) IN
          /\ mailbox.id # 0
          /\ is_active # mailbox.is_active \/ model_id \notin {0, mailbox.model_id}
          /\ mail' = [Answered(mail, "update", mailbox.channel_id, 200, "")
                         EXCEPT !.mailboxes[id].is_active = is_active,
                                !.mailboxes[id].model_id =
                                    IF model_id = 0 THEN @ ELSE model_id]
    /\ UNCHANGED <<syncvars, rq, ls, dl, store, preview, api>>

\* regenerate_webhook_token, lines 197-224: the mailbox gets a new token
RegenerateToken ==
    /\ mail.tokens <= MaxMailboxes
    /\ \E id \in MailboxIds :
          LET mailbox == get_mailbox_by_id(mail, id) IN
          /\ mailbox.id # 0
          /\ mail' = [Answered(mail, "regenerate-token", mailbox.channel_id, 200, "")
                         EXCEPT !.mailboxes[id].webhook_token = mail.tokens + 1,
                                !.tokens = @ + 1]
    /\ UNCHANGED <<syncvars, rq, ls, dl, store, preview, api>>

\* delete_mailbox, lines 252-257: the emails of the mailbox are deleted, then
\* the mailbox
delete_mailbox(m, id) ==
    [delete_emails_by_mailbox_id(
         Answered(m, "delete", m.mailboxes[id].channel_id, 200, ""), id)
        EXCEPT !.mailboxes[id] = NoMailbox]

\* DELETE /{id}/delete of a mailbox
DeleteMailbox ==
    /\ \E id \in MailboxIds :
          /\ get_mailbox_by_id(mail, id).id # 0
          /\ mail' = delete_mailbox(mail, id)
    /\ UNCHANGED <<syncvars, rq, ls, dl, store, preview, api>>

\* the mailbox of one channel, the webhook calls to it and their tasks
NextMail ==
    \/ CreateMailboxOfChannel
    \/ UpdateMailbox
    \/ DeleteMailbox
    \/ \E c \in CallIds : WebhookArrives(c)
    \/ \E c \in CallIds : EmitReturns(c)
    \/ \E c \in CallIds : EmitRaises(c)
    \/ \E c \in CallIds : AgentBegins(c)
    \/ \E c \in CallIds : ModelsReturn(c)
    \/ \E c \in CallIds : InitialEmitReturns(c)
    \/ \E c \in CallIds : CompletionReturns(c)
    \/ \E c \in CallIds : UpdateEmitReturns(c)
    \/ \E c \in CallIds : AgentRaises(c)

SpecMail == Init /\ [][NextMail]_vars

\* the mailboxes of the channels created, changed, deleted and given new
\* tokens, and the webhook calls up to their answers
NextMailboxes ==
    \/ CreateMailbox
    \/ UpdateMailbox
    \/ RegenerateToken
    \/ DeleteMailbox
    \/ \E c \in CallIds : WebhookPosts(c)
    \/ \E c \in CallIds : EmitReturns(c)

SpecMailboxes == Init /\ [][NextMailboxes]_vars

(* --------------- the endpoints of a job called by any user -------------- *)

\* the endpoint raises an HTTPException; nothing is written
Refused(endpoint, user, granted, status_code, detail) ==
    /\ api' = Answer(endpoint, user, granted, status_code, detail, FALSE)
    /\ UNCHANGED <<syncvars, rq, ls, dl, store, preview, mail>>

\* the start-run endpoint without the check of lines 627-633
execute_sharepoint_sync_unchecked(user, grants) ==
    /\ ~api.deleted
    /\ job.sync_status # "syncing"
    /\ nruns < AccessRuns
    /\ now' = now + 1
    /\ job' = update_sync_by_id(job, now',
                 [ sync_status   |-> "syncing",
                   sync_error    |-> ErrNone,
                   sync_progress |-> 0,
                   sync_total    |-> 0 ])
    /\ nruns' = nruns + 1
    /\ runs' = [runs EXCEPT ![nruns + 1] = [NoRun EXCEPT !.pc = "pending"]]
    /\ resp' = [status |-> TRUE, message |-> "Sync started in background"]
    /\ api' = Answer("sync", user, Permitted(job, user, "write", grants), 200, "", FALSE)
    /\ UNCHANGED <<files_db, knowledge, appended, rq, ls, dl, store, preview, mail>>

\* execute_sharepoint_sync, POST /{id}/sync, lines 619-669
execute_sharepoint_sync(user, grants) ==
    LET granted == Permitted(job, user, "write", grants) IN
    IF api.deleted
    THEN Refused("sync", user, granted, 404, "NOT_FOUND")
    ELSE IF ~granted
    THEN Refused("sync", user, granted, 403, "UNAUTHORIZED")
    ELSE IF job.sync_status = "syncing"
    THEN /\ resp' = [status |-> TRUE, message |-> "Sync already in progress"]
         /\ api' = Answer("sync", user, granted, 200, "", FALSE)
         /\ UNCHANGED <<job, files_db, knowledge, runs, nruns, now, appended,
                        rq, ls, dl, store, preview, mail>>
    ELSE /\ nruns < AccessRuns
         /\ now' = now + 1
         /\ job' = update_sync_by_id(job, now',
                      [ sync_status   |-> "syncing",
                        sync_error    |-> ErrNone,
                        sync_progress |-> 0,
                        sync_total    |-> 0 ])
         /\ nruns' = nruns + 1
         /\ runs' = [runs EXCEPT ![nruns + 1] = [NoRun EXCEPT !.pc = "pending"]]
         /\ resp' = [status |-> TRUE, message |-> "Sync started in background"]
         /\ api' = Answer("sync", user, granted, 200, "", FALSE)
         /\ UNCHANGED <<files_db, knowledge, appended, rq, ls, dl, store, preview, mail>>

\* cancel_sharepoint_sync, POST /{id}/cancel, lines 161-192
cancel_sharepoint_sync(user, grants) ==
    LET granted == Permitted(job, user, "write", grants) IN
    IF api.deleted
    THEN Refused("cancel", user, granted, 404, "NOT_FOUND")
    ELSE IF ~granted
    THEN Refused("cancel", user, granted, 403, "UNAUTHORIZED")
    ELSE IF job.sync_status # "syncing"
    THEN /\ resp' = [status |-> FALSE, message |-> "Sync is not running"]
         /\ api' = Answer("cancel", user, granted, 200, "", FALSE)
         /\ UNCHANGED <<job, files_db, knowledge, runs, nruns, now, appended,
                        rq, ls, dl, store, preview, mail>>
    ELSE /\ job' = update_sync_by_id(job, now,
                      [ sync_status |-> "cancelled",
                        sync_error  |-> ErrText("Sync was cancelled by user") ])
         /\ resp' = [status |-> TRUE, message |-> "Sync cancelled"]
         /\ runs' = [r \in RunIds |->
                       IF runs[r].pc = "download"
                       THEN [runs[r] EXCEPT !.cancel_seen = TRUE] ELSE runs[r]]
         /\ api' = Answer("cancel", user, granted, 200, "", FALSE)
         /\ UNCHANGED <<files_db, knowledge, nruns, now, appended,
                        rq, ls, dl, store, preview, mail>>

\* delete_sharepoint_sync, DELETE /{id}, lines 200-227
delete_sharepoint_sync(user, grants) ==
    LET granted == Permitted(job, user, "write", grants) IN
    IF api.deleted
    THEN Refused("delete", user, granted, 404, "NOT_FOUND")
    ELSE IF ~granted
    THEN Refused("delete", user, granted, 403, "UNAUTHORIZED")
    ELSE /\ api' = [Answer("delete", user, granted, 200, "", FALSE)
                       EXCEPT !.deleted = TRUE]
         /\ UNCHANGED <<syncvars, rq, ls, dl, store, preview, mail>>

\* get_sharepoint_sync_by_id, GET /{id}, lines 56-75
get_sharepoint_sync_by_id(user, grants) ==
    LET granted == Permitted(job, user, "read", grants) IN
    IF api.deleted
    THEN Refused("get", user, granted, 404, "NOT_FOUND")
    ELSE IF ~granted
    THEN Refused("get", user, granted, 403, "UNAUTHORIZED")
    ELSE /\ api' = Answer("get", user, granted, 200, "", TRUE)
         /\ UNCHANGED <<syncvars, rq, ls, dl, store, preview, mail>>

\* get_sync_status, GET /{id}/status, lines 673-693
get_sync_status(user, grants) ==
    LET granted == Permitted(job, user, "read", grants) IN
    IF api.deleted
    THEN Refused("status", user, granted, 404, "NOT_FOUND")
    ELSE IF ~granted
    THEN Refused("status", user, granted, 403, "UNAUTHORIZED")
    ELSE /\ api' = Answer("status", user, granted, 200, "", TRUE)
         /\ UNCHANGED <<syncvars, rq, ls, dl, store, preview, mail>>

\* update_sharepoint_sync, POST /{id}/update, lines 125-153: only the owner
\* or an admin; the form is built with name and access_control both set, to
\* the values of the request or to None
update_sharepoint_sync(user, request) ==
    LET granted == job.user_id = user.id \/ user.role = "admin" IN
    IF api.deleted
    THEN Refused("update", user, granted, 404, "NOT_FOUND")
    ELSE IF ~granted
    THEN Refused("update", user, granted, 403, "UNAUTHORIZED")
    ELSE /\ job' = update_sync_by_id(job, now,
                      [ name           |-> request.name,
                        access_control |-> request.access_control ])
         /\ api' = [Answer("update", user, granted, 200, "", TRUE)
                       EXCEPT !.supplied = {key \in DOMAIN request :
                                               request[key] # "None"}]
         /\ UNCHANGED <<files_db, knowledge, runs, nruns, now, resp, appended,
                        rq, ls, dl, store, preview, mail>>

\* the folders and outcomes of the runs started through the endpoints
AccessListings == {<<>>, <<[id |-> 1, lastModifiedDateTime |-> 1]>>}

\* the requests of any user to the endpoints of the job, and the steps of the
\* tasks they start
NextAccess ==
    \/ \E user \in Users, grants \in Grants : execute_sharepoint_sync(user, grants)
    \/ \E user \in Users, grants \in Grants : cancel_sharepoint_sync(user, grants)
    \/ \E user \in Users, grants \in Grants : delete_sharepoint_sync(user, grants)
    \/ \E user \in Users, grants \in Grants : get_sharepoint_sync_by_id(user, grants)
    \/ \E user \in Users, grants \in Grants : get_sync_status(user, grants)
    \/ \E user \in Users, request \in UpdateRequests : update_sharepoint_sync(user, request)
    \/ \E r \in RunIds : RunBegin(r)
    \/ \E r \in RunIds, files \in AccessListings : ListingOk(r, files)
    \/ \E r \in RunIds, e \in FaultErrors : ListingFail(r, e)
    \/ \E r \in RunIds, outcome \in FaultOutcomes : DownloadDone(r, outcome)

SpecAccess == Init /\ [][NextAccess]_vars

(* ------------------------------ claims --------------------------------- *)

\* the error text the orchestrator stores on token expiry (line 595)
ReauthError ==
    ErrText("Access token expired. Please click Sync again to re-authenticate.")

\* sync_total has been written by the task of the latest start-run request
TotalSet ==
    /\ nruns > 0
    /\ \/ runs[nruns].pc = "download"
       \/ runs[nruns].pc = "done" /\ runs[nruns].exit \in {"completed", "cancelled"}

\* C1: the status is always one of the six values, and every change of it
\* enters syncing from idle or a terminal state, or enters a terminal state
\* from syncing.
C1_StatusStateMachine ==
    [][ /\ job'.sync_status \in Statuses
        /\ job'.sync_status # job.sync_status =>
              \/ job'.sync_status = "syncing"
                 /\ job.sync_status \in {"idle"} \cup Terminal
              \/ job'.sync_status \in Terminal
                 /\ job.sync_status = "syncing" ]_vars

\* C2: when a cancel request was accepted while item k of a task was in
\* flight and k is not the last item, the task finishes item k and returns at
\* the check of item k+1: no progress increment, no file row of a later item,
\* and the status is cancelled when it returns.
C2_CancelStopsAtNextCheck ==
    [][ \A r \in RunIds :
          ( /\ runs[r].pc = "download"
            /\ runs[r].cancel_seen
            /\ runs[r].idx < Len(runs[r].files)
            /\ runs'[r].idx > runs[r].idx )
          => /\ runs'[r].exit = "cancelled"
             /\ runs'[r].current_progress = runs[r].current_progress
             /\ Len(files_db') <= Len(files_db) + 1
             /\ job'.sync_status = "cancelled" ]_vars

\* C3: once the total of the run has been set, progress <= total.
C3_ProgressWithinTotal ==
    TotalSet => job.sync_progress <= job.sync_total

\* C4: a TokenExpired failure of the folder listing or of an item's download
\* ends the run there: no further item is counted, the status is
\* token_expired and the error is the fixed re-authentication message.
C4_TokenExpiryStopsRun ==
    [][ \A r \in RunIds :
          ( \/ \E e \in ListingErrors :
                  e.type = "TokenExpiredError" /\ ListingFail(r, e)
            \/ DownloadDone(r, "token_expired") )
          => /\ runs'[r].exit = "token_expired"
             /\ runs'[r].current_progress = runs[r].current_progress
             /\ job'.sync_status = "token_expired"
             /\ job'.sync_error = ReauthError ]_vars

\* the failures of an item that C5 is about (token expiry is C4's)
ItemFailures == Outcomes \ {"ok", "token_expired"}

\* C5: a failure of item X is recorded and does not abort the run: the
\* message of X is appended to the failures, the task does not return through
\* an error handler, item X+1 is counted next (unless the job reads
\* cancelled), and a run that completes with failures ends error with the
\* first 5 failure messages, in order, as its error.
C5_ItemFailureNotFatal ==
    [][ \A r \in RunIds :
          LET a == runs[r]
              b == runs'[r]
          IN  /\ ( \E outcome \in ItemFailures : DownloadDone(r, outcome) )
                 => /\ Len(b.errors) = Len(a.errors) + 1
                    /\ b.errors[Len(b.errors)].args = <<a.files[a.idx].id>>
                    /\ SubSeq(b.errors, 1, Len(a.errors)) = a.errors
                    /\ b.exit \in {"", "completed", "cancelled"}
                    /\ ( a.idx < Len(a.files) /\ job.sync_status # "cancelled" )
                          => b.current_progress > a.current_progress
                    /\ ( a.idx = Len(a.files) ) => b.exit = "completed"
              /\ ( a.exit = "" /\ b.exit = "completed" /\ b.errors # <<>> )
                 => /\ job'.sync_status = "error"
                    /\ job'.sync_error.text = "; "
                    /\ Len(job'.sync_error.parts) = Min(5, Len(b.errors))
                    /\ \A i \in 1..Len(job'.sync_error.parts) :
                          job'.sync_error.parts[i] = b.errors[i] ]_vars

C5_Witness ==
    \E r \in RunIds :
        /\ runs[r].exit = "completed"
        /\ Len(runs[r].errors) > 5
        /\ runs[r].current_progress = Len(runs[r].files)
        /\ job.sync_status = "error"
        /\ Len(job.sync_error.parts) = 5

\* C6: the step in which the loop completes writes status synced iff no
\* failure was recorded (else error), file_count = synced + skipped, a null
\* error when there is no failure, last_sync_at, and its last log entry is
\* the completion entry.
C6_Completion ==
    [][ \A r \in RunIds :
          ( runs[r].exit = "" /\ runs'[r].exit = "completed" )
          => LET b    == runs'[r]
                 logs == job'.sync_logs
             IN  /\ b.errors = <<>> => job'.sync_status = "synced"
                 /\ b.errors # <<>> => job'.sync_status = "error"
                 /\ job'.file_count = b.synced_count + b.skipped_count
                 /\ b.errors = <<>> => job'.sync_error = ErrNone
                 /\ job'.last_sync_at = now
                 /\ job'.last_sync_at # NoTime
                 /\ logs # <<>>
                 /\ logs[Len(logs)].level = "info"
                 /\ logs[Len(logs)].message.args =
                        <<b.synced_count, b.skipped_count, Len(b.errors)>> ]_vars

C6_Witness ==
    \E r \in RunIds :
        /\ runs[r].exit = "completed"
        /\ runs[r].errors = <<>>
        /\ runs[r].synced_count > 0
        /\ job.sync_status = "synced"
        /\ job.file_count = runs[r].synced_count

\* C7: a start-run request for a job that reads syncing leaves the job row
\* unchanged and dispatches no orchestrator task.
C7_StartRejectedWhileSyncing ==
    [][ ( StartRun /\ job.sync_status = "syncing" )
        => /\ job' = job
           /\ nruns' = nruns
           /\ runs' = runs
           /\ resp'.message = "Sync already in progress" ]_vars

C7_Witness ==
    /\ resp.message = "Sync already in progress"
    /\ job.sync_status = "syncing"
    /\ nruns = 1

\* C8: a cancel request sets the status to cancelled iff the status is
\* syncing; otherwise it leaves the job row unchanged and answers that the
\* sync is not running.  Nothing else sets the status to cancelled.
C8_CancelIffSyncing ==
    [][ /\ Cancel =>
              IF job.sync_status = "syncing"
              THEN job'.sync_status = "cancelled" /\ resp'.status = TRUE
              ELSE /\ job' = job
                   /\ resp' = [status |-> FALSE, message |-> "Sync is not running"]
        /\ ( job'.sync_status = "cancelled" /\ job.sync_status # "cancelled" )
              => job.sync_status = "syncing" ]_vars

C8_Witness ==
    /\ resp.message = "Sync is not running"
    /\ job.sync_status = "synced"

\* C9: the persisted sync_logs never has more than 100 entries.
C9_LogsBounded == Len(job.sync_logs) <= 100

C9_Witness ==
    /\ Len(appended) > 100
    /\ Len(job.sync_logs) = 100

\* C10: the persisted logs are the last min(n, 100) of the n entries
\* appended since the logs were reset, in append order.
C10_LogsAreLastAppended ==
    LET n == Len(appended)
        m == Min(n, 100)
    IN  /\ Len(job.sync_logs) = m
        /\ \A i \in 1..m : job.sync_logs[i] = appended[n - m + i]

\* a completed run over 150 items: 154 appends, 100 entries kept
C10_Witness ==
    \E r \in RunIds :
        /\ runs[r].exit = "completed"
        /\ Len(runs[r].files) = 150
        /\ Len(appended) = 154
        /\ Len(job.sync_logs) = 100
        /\ job.sync_logs[1] = appended[55]

\* task r returned from the loop with no failure, and every item it skipped
\* was recorded with the last-modified value it was listed with
AllSucceeded(run) ==
    /\ run.exit = "completed"
    /\ run.errors = <<>>
    /\ \A i \in 1..Len(run.files) :
          run.files[i].id \in DOMAIN run.existing_files =>
             run.existing_files[run.files[i].id].last_modified
                = run.files[i].lastModifiedDateTime

\* C11: when task r1 has synchronised a folder with every item succeeding and
\* the next task r2 lists the same folder and runs to its completion, then r2
\* downloads nothing and skips every item, logging 'Skipped (unchanged)' for
\* each; the job is synced after both, progress = total = the number of
\* items, and file_count is what it was after r1.
C11_SecondRunSkipsAll ==
    [][ /\ \A r \in RunIds :
             ( runs[r].exit = "" /\ AllSucceeded(runs'[r]) )
             => /\ job'.sync_status = "synced"
                /\ job'.sync_total = Len(runs'[r].files)
                /\ job'.sync_progress = job'.sync_total
        /\ \A r1, r2 \in RunIds :
             ( /\ r2 = r1 + 1
               /\ AllSucceeded(runs[r1])
               /\ runs[r2].exit = ""
               /\ runs'[r2].exit = "completed"
               /\ runs'[r2].files = runs[r1].files )
             => LET b == runs'[r2]
                    n == Len(b.files)
                IN  /\ AllSucceeded(b)
                    /\ b.synced_count = 0
                    /\ b.skipped_count = n
                    /\ files_db' = files_db
                    /\ knowledge' = knowledge
                    /\ Len(appended') = n + 4
                    /\ \A i \in 1..n :
                          appended'[3 + i] =
                             LogEntry(now, "skip",
                                      Msg("Skipped (unchanged)", <<>>, ""),
                                      b.files[i].id)
                    /\ job'.file_count = job.file_count
                    /\ job'.file_count = n ]_vars

\* the second of two runs over the same folder of several files has completed
C11_Witness ==
    \E r \in RunIds :
        /\ r + 1 \in RunIds
        /\ AllSucceeded(runs[r])
        /\ runs[r].synced_count > 1
        /\ \E i \in 1..Len(runs[r].files) : runs[r].files[i].lastModifiedDateTime > 1
        /\ runs[r + 1].exit = "completed"
        /\ runs[r + 1].files = runs[r].files
        /\ runs[r + 1].skipped_count = Len(runs[r].files)
        /\ job.sync_status = "synced"

\* the index of the item task r is about to download, or has stopped at
StoppedAt(run) ==
    IF run.exit = "completed" THEN Len(run.files) + 1 ELSE run.idx

\* C12: an item of the skip-set is never downloaded and no file row is
\* written for it: a task awaits the download of items outside its skip-set
\* only, the only row a step adds is the row of the item whose download just
\* ended, and no row is changed or removed.  Every item the loop passes
\* without a download is in the skip-set, is counted as skipped, and is
\* logged 'Skipped (unchanged)' when its last-modified value equals the
\* recorded one and 'Skipped (already exists)' otherwise.
C12_SkippedItemsUntouched ==
    [][ \A r \in RunIds :
          LET a == runs[r]
              b == runs'[r]
              first == IF a.pc = "listing" THEN 1 ELSE a.idx + 1
              last  == StoppedAt(b) - 1
              base  == Len(appended) + 1
          IN  /\ b.pc = "download" =>
                    b.files[b.idx].id \notin DOMAIN b.existing_files
              /\ Len(files_db') >= Len(files_db)
              /\ SubSeq(files_db', 1, Len(files_db)) = files_db
              /\ ( /\ \/ a.pc = "listing" /\ b.pc # "listing"
                      \/ a.pc = "download" /\ b.idx > a.idx
                   /\ b.exit \in {"", "completed", "cancelled"} )
                 => /\ b.existing_files = a.existing_files
                    /\ b.skipped_count = a.skipped_count + (last - first + 1)
                    /\ Len(files_db') > Len(files_db) =>
                          /\ a.pc = "download"
                          /\ Len(files_db') = Len(files_db) + 1
                          /\ files_db'[Len(files_db')].sharepoint_item_id
                                = a.files[a.idx].id
                    /\ \A j \in first..last :
                          LET item == b.files[j] IN
                          /\ item.id \in DOMAIN b.existing_files
                          /\ appended'[base + (j - first + 1)] =
                                LogEntry(now, "skip",
                                   Msg(IF b.existing_files[item.id].last_modified
                                            = item.lastModifiedDateTime
                                       THEN "Skipped (unchanged)"
                                       ELSE "Skipped (already exists)", <<>>, ""),
                                   item.id) ]_vars

\* a run has skipped an unchanged item and a modified one
C12_Witness ==
    \E r \in RunIds :
        /\ runs[r].exit = "completed"
        /\ runs[r].skipped_count > 1
        /\ \E i, j \in DOMAIN appended :
              /\ appended[i].message.text = "Skipped (unchanged)"
              /\ appended[j].message.text = "Skipped (already exists)"
              /\ appended[j].file_name \in DOMAIN runs[r].existing_files

\* C13: an accepted start-run request writes progress 0, total 0 and a null
\* error; the first step of the task it dispatches replaces the logs, so
\* that they begin with 'Sync started' and hold nothing else than what that
\* step appended; and from then on every persisted entry was logged after
\* the request (the clock ticks at every accepted request).
C13_NewRunResets ==
    [][ /\ nruns' # nruns =>
              /\ job'.sync_status = "syncing"
              /\ job'.sync_progress = 0
              /\ job'.sync_total = 0
              /\ job'.sync_error = ErrNone
        /\ \A r \in RunIds :
              RunBegin(r) =>
                 /\ job'.sync_logs = appended'
                 /\ Len(job'.sync_logs) = 2
                 /\ job'.sync_logs[1] =
                       LogEntry(now, "info", Msg("Sync started", <<>>, ""), NoFile)
        /\ ( nruns' > 0 /\ runs'[nruns'].pc \notin {"unused", "pending"} ) =>
              \A i \in DOMAIN job'.sync_logs :
                 job'.sync_logs[i].timestamp = now' ]_vars

\* the task of a second request has made its first step, after a first run
\* that left more than two log entries, a total and an error
C13_Witness ==
    /\ nruns = 2
    /\ runs[1].exit = "completed"
    /\ runs[1].errors # <<>>
    /\ runs[2].pc = "listing"
    /\ Len(job.sync_logs) = 2
    /\ job.sync_logs[1].message.text = "Sync started"
    /\ job.sync_progress = 0
    /\ job.sync_total = 0
    /\ job.sync_error = ErrNone

\* C14: when list_folder_contents raises an error that is not a
\* TokenExpiredError, the task returns through the handler of line 598: the
\* status is error, the error field is the message of the error, the failure
\* is logged, total and progress are still 0, no item was counted, skipped or
\* downloaded and no file row or knowledge attachment was made.
C14_ListingFailureStopsRun ==
    [][ \A r \in RunIds, e \in ListingErrors :
          ( e.type # "TokenExpiredError" /\ ListingFail(r, e) )
          => LET b == runs'[r] IN
             /\ b.pc = "done"
             /\ b.exit = "error"
             /\ job'.sync_status = "error"
             /\ job'.sync_error = ErrText(e.text)
             /\ job'.sync_total = 0
             /\ job'.sync_progress = 0
             /\ b.files = <<>>
             /\ b.current_progress = 0
             /\ b.synced_count = 0
             /\ b.skipped_count = 0
             /\ files_db' = files_db
             /\ knowledge' = knowledge
             /\ job'.file_count = job.file_count
             /\ job'.last_sync_at = job.last_sync_at
             /\ appended'[Len(appended')] =
                   LogEntry(now, "error", Msg("Sync failed: {}", <<>>, e.text), NoFile)
        ]_vars

\* the listing of a re-run failed after retries were exhausted
C14_Witness ==
    \E r \in RunIds :
        /\ r > 1
        /\ runs[r].exit = "error"
        /\ runs[r].files = <<>>
        /\ files_db # <<>>
        /\ job.sync_status = "error"
        /\ job.sync_error =
              ErrText("SharePoint returned HTML error page after all retries")
        /\ job.sync_total = 0

\* the two messages of TokenExpiredError (lines 261 and 264)
ExpiredText == "Access token has expired. Please click Sync again to re-authenticate."
AuthFailedText == "Authentication failed. Please click Sync again to re-authenticate."

\* x is a 401 response
Is401(x) == x.exc = NoError /\ x.response.status_code = 401

\* the codes that contain 'expired' whatever the case of their letters
ExpiryCodes == {"ExpiredAuthenticationToken", "token_EXPIRED"}

\* the body is JSON and its error code or inner error code contains
\* 'expired', or its error code is 'unauthenticated'
ExpiryBody(body) ==
    /\ body.json
    /\ \/ body.code \in ExpiryCodes \cup {"unauthenticated"}
       \/ body.inner \in ExpiryCodes

\* x is a 200 response declared as HTML
IsHtml200(x) ==
    /\ x.exc = NoError
    /\ x.response.status_code = 200
    /\ x.response.content_type = "text/html; charset=utf-8"

\* the step leaves the attempt counters of the call as they are
NoRetry ==
    /\ rq'.sleeps = rq.sleeps
    /\ rq'.requests = rq.requests
    /\ rq'.attempt = rq.attempt

\* a call that has ended sends nothing more
Ended == rq.pc \in {"returned", "raised"} => rq' \in {rq, NoCall}

\* C15: a 401 whose error code or inner error code contains 'expired', or
\* whose error code is 'unauthenticated', makes the call raise
\* TokenExpiredError('Access token has expired...') in the attempt that
\* received it, on any attempt index: no sleep, no further request.
C15_ExpiredTokenNotRetried ==
    [][ /\ \A x \in Attempts :
             ( Is401(x) /\ ExpiryBody(x.response.body) /\ Respond(x) )
             => /\ rq'.pc = "raised"
                /\ rq'.error = TokenExpiredError(ExpiredText)
                /\ NoRetry
        /\ Ended ]_vars

\* the third attempt of a call was answered 401 with an expiry code
C15_Witness ==
    /\ rq.pc = "raised"
    /\ rq.error = TokenExpiredError(ExpiredText)
    /\ rq.attempt = 2
    /\ rq.requests = 3
    /\ rq.sleeps = <<1, 2>>

C17_BackoffDelays ==
    ( /\ rq.max_retries = 3
      /\ rq.pc = "raised"
      /\ rq.error.type # "TokenExpiredError" )
    => rq.sleeps = <<1, 2, 4>>

C19_OtherResponsesReturned ==
    [][ /\ \A x \in Attempts :
             ( x.exc = NoError /\ ~Is401(x) /\ ~IsHtml200(x) /\ Respond(x) )
             => /\ rq'.pc = "returned"
                /\ rq'.response = x.response
                /\ rq'.error = NoError
                /\ NoRetry
        /\ Ended ]_vars

\* a 503 declared as HTML was returned by the third attempt
C19_Witness ==
    /\ rq.pc = "returned"
    /\ rq.response.status_code = 503
    /\ rq.response.content_type = "text/html; charset=utf-8"
    /\ rq.attempt = 2
    /\ rq.requests = 3

\* the files of a remote tree below a folder, by depth-first recursion: the
\* children in the order of the folder, the files of a subfolder in the place
\* of the subfolder
RECURSIVE DepthFirst(_, _, _)
DepthFirst(tree, folder, from) ==
    IF from > Len(tree.kind) THEN <<>>
    ELSE IF tree.parent[from] # folder THEN DepthFirst(tree, folder, from + 1)
    ELSE ( CASE tree.kind[from] = "file"   -> <<from>>
             [] tree.kind[from] = "folder" -> DepthFirst(tree, from, from + 1)
             [] OTHER                      -> <<>> )
         \o DepthFirst(tree, folder, from + 1)

\* the files of a remote tree
FilesOf(tree) == {i \in 1..Len(tree.kind) : tree.kind[i] = "file"}

\* C20: when list_folder_contents returns, it returns one descriptor for each
\* of the N files of the remote tree and nothing else, in the order of the
\* depth-first recursion over the tree, whatever the nesting, the empty
\* folders and the page size.
C20_ListingIsDepthFirst ==
    ls.pc = "returned" =>
        LET order == DepthFirst(ls.tree, 0, 1) IN
        /\ Len(ls.files) = Cardinality(FilesOf(ls.tree))
        /\ {ls.files[i].id : i \in 1..Len(ls.files)} = FilesOf(ls.tree)
        /\ Len(ls.files) = Len(order)
        /\ \A i \in 1..Len(order) : ls.files[i].id = order[i]

\* a listing has returned for a tree with an empty folder and a root folder
\* listed in more than one page, and a file of a subfolder comes before a
\* file of the root folder that has a smaller id
C20_Witness ==
    /\ ls.pc = "returned"
    /\ Len(ls.files) >= 2
    /\ \E i \in 1..(Len(ls.files) - 1) : ls.files[i].id > ls.files[i + 1].id
    /\ \E f \in 1..Len(ls.tree.kind) :
          /\ ls.tree.kind[f] = "folder"
          /\ Children(ls.tree, f) = <<>>
    /\ Len(Children(ls.tree, 0)) > ls.page_size
    /\ ls.requests > 3

\* the number of pages of a folder: one request per page, an empty folder
\* has one page
PagesOf(tree, page_size, folder) ==
    LET n == Len(Children(tree, folder))
    IN  IF n = 0 THEN 1 ELSE (n + page_size - 1) \div page_size

\* the number of pages of the root folder and of every folder below it
AllPages(tree, page_size) ==
    LET folders == {0} \cup {i \in 1..Len(tree.kind) : tree.kind[i] = "folder"}
        RECURSIVE Sum(_)
        Sum(S) == IF S = {} THEN 0
                  ELSE LET f == CHOOSE f \in S : TRUE
                       IN  PagesOf(tree, page_size, f) + Sum(S \ {f})
    IN  Sum(folders)

\* C21: list_folder_contents follows the next-page link of every folder until
\* it is absent: when it returns it has requested every page of the root
\* folder and of every folder below it, once.  A failure on any page of any
\* folder aborts the whole call: the caller receives the error and no list of
\* descriptors, and no descriptor is handed out while pages are outstanding.
C21_ListingAllOrNothing ==
    /\ ls.pc = "returned" => ls.requests = AllPages(ls.tree, ls.page_size)
    /\ ls.pc = "page" =>
          /\ ls.files = <<>>
          /\ ls.requests <= AllPages(ls.tree, ls.page_size)
    /\ ls.pc = "raised" =>
          /\ ls.files = <<>>
          /\ ls.stack = <<>>
          /\ ls.error \in ListingErrors
          /\ ls.requests <= AllPages(ls.tree, ls.page_size)

\* the first page of a subfolder failed after the root folder, listed one
\* item per page, had already given a file
C21_Witness ==
    /\ ls.pc = "raised"
    /\ ls.page_size = 1
    /\ ls.requests = 3
    /\ Len(ls.tree.kind) >= 3
    /\ ls.tree.kind[1] = "file"
    /\ ls.tree.kind[2] = "folder"
    /\ ls.tree.parent[3] = 2

\* the exceptions download_file_from_sharepoint raises itself
MetadataFailed == [type |-> "Exception", text |-> "Failed to get file metadata"]
UrlMissing == [type |-> "Exception", text |-> "Download URL not found in file metadata"]
DownloadFailed == [type |-> "Exception", text |-> "Failed to download file"]

\* C22: download_file_from_sharepoint requests the download URL only after
\* the metadata request returned 200 with a non-empty download URL, and it
\* requests that URL; a non-200 metadata response or a missing URL fails the
\* call with no download request made; a non-200 download response fails the
\* call and no content is returned; content is returned only for a 200
\* download response.
C22_DownloadAfterMetadata ==
    /\ Len(dl.requests) <= 2
    /\ Len(dl.requests) = 2 =>
          /\ dl.requests[1] = "metadata"
          /\ dl.metadata_response.status_code = 200
          /\ DownloadUrl(dl.metadata_response.json) # ""
          /\ dl.requests[2] = DownloadUrl(dl.metadata_response.json)
    /\ dl.pc = "download" => Len(dl.requests) = 2
    /\ (dl.pc = "raised" /\ dl.metadata_response.status_code \notin {0, 200}) =>
          /\ dl.error = MetadataFailed
          /\ Len(dl.requests) = 1
    /\ (dl.pc = "raised" /\ dl.metadata_response.status_code = 200
                         /\ DownloadUrl(dl.metadata_response.json) = "") =>
          /\ dl.error = UrlMissing
          /\ Len(dl.requests) = 1
    /\ (dl.pc = "raised" /\ dl.download_status \notin {0, 200}) =>
          dl.error = DownloadFailed
    /\ dl.pc = "raised" => dl.result = NoContent
    /\ dl.pc = "returned" =>
          /\ Len(dl.requests) = 2
          /\ dl.download_status = 200
          /\ dl.result.content # 0

\* a call failed on a non-200 download response after a 200 metadata
\* response whose URL came from the second member
C22_Witness ==
    /\ dl.pc = "raised"
    /\ dl.error = DownloadFailed
    /\ dl.download_status = 503
    /\ dl.metadata_response.json.graph_downloadUrl = ""
    /\ dl.requests = <<"metadata", "content">>

\* the log entries that record the outcome of an item
ItemEntries(log) ==
    SelectSeq(log, LAMBDA e : e.level \in {"success", "skip", "error"}
                                /\ e.file_name # NoFile)

\* the first n listed items have one outcome entry each, in listing order
OutcomesLogged(log, files, n) ==
    LET entries == ItemEntries(log)
    IN  /\ Len(entries) = n
        /\ \A k \in 1..n : entries[k].file_name = files[k].id

\* C23: within one run the items are processed one at a time in listing
\* order.  While a task is between its start and its return the persisted
\* progress never decreases; when the task awaits the download of item k the
\* persisted progress is k (the item was counted after the cancellation check
\* and before its outcome) and items 1..k-1 have their outcome logged, one
\* entry each, in listing order; a task that finds the job cancelled counts
\* no further item; a task that completes has counted and logged every item.
C23_SequentialProgress ==
    [][ \A r \in RunIds :
          LET a == runs[r]
              b == runs'[r]
          IN  a.pc \in {"listing", "download"} =>
                /\ job'.sync_progress >= job.sync_progress
                /\ b.pc = "download" =>
                      /\ job'.sync_progress = b.idx
                      /\ b.current_progress = b.idx
                      /\ OutcomesLogged(appended', b.files, b.idx - 1)
                /\ (b # a /\ b.exit = "cancelled") =>
                      /\ job'.sync_progress = job.sync_progress
                      /\ b.current_progress = b.idx - 1
                /\ (b # a /\ b.exit = "completed") =>
                      /\ job'.sync_progress = Len(b.files)
                      /\ OutcomesLogged(appended', b.files, Len(b.files)) ]_vars

\* an orchestrator task has been dispatched and has not returned
Active(r) == runs[r].pc \notin {"unused", "done"}

\* the steps a task has left at most: its start, the listing, and one step
\* for each item from the one it awaits on
TaskRank(run) ==
    CASE run.pc = "unused"   -> MaxItems + 3
      [] run.pc = "pending"  -> MaxItems + 2
      [] run.pc = "listing"  -> MaxItems + 1
      [] run.pc = "download" -> Len(run.files) - run.idx + 1
      [] OTHER               -> 0

\* every step of a task brings it nearer to its return and no step takes it
\* back: with the steps of SpecFaults taken when they can be, every
\* dispatched task returns
TaskStepsDescend ==
    [][ \A r \in RunIds :
          /\ TaskRank(runs'[r]) <= TaskRank(runs[r])
          /\ (runs'[r].pc # runs[r].pc \/ runs'[r].idx # runs[r].idx)
                => TaskRank(runs'[r]) < TaskRank(runs[r]) ]_vars

\* C24: a job is never left at syncing with no orchestrator running for it:
\* whenever the job reads syncing a task has been dispatched for it and has
\* not returned yet, so that when the last task returns the status is one of
\* synced, error, cancelled, token_expired.
C24_NeverLeftSyncing ==
    job.sync_status = "syncing" => \E r \in RunIds : Active(r)

\* C25: the list-folder preview endpoint changes no persisted state: from
\* the arrival of the request to its response, whatever the listing returns
\* and however it fails, no field of the job, no file record and no member of
\* the knowledge collection is modified.
C25_PreviewWritesNothing ==
    [][ ( \/ PreviewStart
          \/ PageOk
          \/ \E e \in ListingErrors : PageFail(e)
          \/ PreviewReturn )
        => UNCHANGED <<job, files_db, knowledge>> ]_vars

\* a preview has listed a file while a task of the job has begun, and the
\* job still has the total 0 of its start
C25_Witness ==
    /\ preview.status_code = 200
    /\ preview.count > 0
    /\ job.sync_status = "syncing"
    /\ job.sync_total = 0
    /\ \E r \in RunIds : runs[r].pc = "listing"

\* an orchestrator task has begun and has not returned
Running(r) == runs[r].pc \in {"listing", "download"}

\* C27: at most one orchestrator run is active for the job at any time,
\* under every interleaving of start-run and cancel requests with the steps
\* of the tasks, a restart after a cancel included.
C27_AtMostOneRun ==
    Cardinality({r \in RunIds : Running(r)}) <= 1

\* C28: once the job reads cancelled and as long as no new run is started, no
\* write of the orchestrator changes the status: it stays cancelled up to
\* and after the return of the task, wherever the cancel landed.
C28_CancelledStays ==
    [][ (job.sync_status = "cancelled" /\ nruns' = nruns)
        => job'.sync_status = "cancelled" ]_vars

\* the items of its listing a task is done with
Finished(run) == IF run.idx = 0 THEN 0 ELSE run.idx - 1

\* the number of entries of a level about a file in a log
EntriesOf(log, level) ==
    Len(SelectSeq(log, LAMBDA e : e.level = level /\ e.file_name # NoFile))

\* C29: every listed item has exactly one outcome among synced, skipped and
\* failed.  Each step of a task adds, for every item it finishes, one to
\* exactly one of the synced count, the skipped count and the recorded
\* failures, and appends one log entry of the matching level (success, skip,
\* error) and no other entry about a file; so when the task completes
\* normally synced + skipped + failures = total = final progress.  For an
\* empty folder the run ends synced with total = progress = file_count = 0.
C29_OneOutcomePerItem ==
    [][ \A r \in RunIds :
          LET a == runs[r]
              b == runs'[r]
              done == Finished(b) - Finished(a)
          IN  /\ ( a.pc \in {"listing", "download"}
                   /\ (b.pc # a.pc \/ b.idx # a.idx) ) =>
                   /\ done >= 0
                   /\ (b.synced_count - a.synced_count)
                        + (b.skipped_count - a.skipped_count)
                        + (Len(b.errors) - Len(a.errors)) = done
                   /\ EntriesOf(appended', "success") - EntriesOf(appended, "success")
                        = b.synced_count - a.synced_count
                   /\ EntriesOf(appended', "skip") - EntriesOf(appended, "skip")
                        = b.skipped_count - a.skipped_count
                   /\ EntriesOf(appended', "error") - EntriesOf(appended, "error")
                        = Len(b.errors) - Len(a.errors)
                   /\ EntriesOf(appended', "info") = EntriesOf(appended, "info")
              /\ ( a.exit = "" /\ b.exit = "completed" ) =>
                   /\ b.synced_count + b.skipped_count + Len(b.errors) = Len(b.files)
                   /\ b.current_progress = Len(b.files)
                   /\ Finished(b) = Len(b.files)
                   /\ b.files = <<>> =>
                         /\ job'.sync_status = "synced"
                         /\ job'.sync_total = 0
                         /\ job'.sync_progress = 0
                         /\ job'.file_count = 0 ]_vars

\* a run has completed with synced, skipped and failed items, attachment
\* failures among them
C29_Witness ==
    \E r \in RunIds :
       /\ runs[r].exit = "completed"
       /\ runs[r].synced_count > 0
       /\ runs[r].skipped_count > 0
       /\ Len(runs[r].errors) > 0
       /\ \E i \in 1..Len(runs[r].errors) :
             runs[r].errors[i].text = "Failed to add {} to knowledge base"
       /\ job.sync_status = "error"

\* the fields of the job other than updated_at in which two records differ
Changed(old, new) == {key \in DOMAIN old \ {"updated_at"} : old[key] # new[key]}

\* C30: update_sync_by_id changes only the fields set in the form (and
\* updated_at).  So the writes of a task that does not return in the step
\* (progress, total, log appends, the reset of the logs) change neither
\* sync_status nor sync_error, nor file_count and last_sync_at; the write of
\* an accepted cancel changes only sync_status and sync_error; the write of
\* an accepted start-run changes only sync_status, sync_error, sync_progress
\* and sync_total; and the writes of a task that returns change nothing but
\* the status, the error, the logs and what the completion sets.
C30_UpdateWritesSetFieldsOnly ==
    [][ /\ \A r \in RunIds :
             ( (runs'[r].pc # runs[r].pc \/ runs'[r].idx # runs[r].idx)
               /\ runs[r].pc \in {"pending", "listing", "download"} ) =>
                IF runs'[r].exit \in {"", "cancelled"}
                THEN Changed(job, job') \subseteq
                         {"sync_logs", "sync_progress", "sync_total"}
                ELSE Changed(job, job') \subseteq
                         {"sync_logs", "sync_progress", "sync_total", "sync_status",
                          "sync_error", "last_sync_at", "file_count"}
        /\ ( job.sync_status = "syncing" /\ job'.sync_status = "cancelled" ) =>
             Changed(job, job') = {"sync_status", "sync_error"}
        /\ nruns' # nruns =>
             Changed(job, job') \subseteq
                 {"sync_status", "sync_error", "sync_progress", "sync_total"} ]_vars

\* a cancel was accepted while a task awaits a download: the logs, the
\* progress and the total the task wrote are still there
C30_Witness ==
    /\ job.sync_status = "cancelled"
    /\ job.sync_error = ErrText("Sync was cancelled by user")
    /\ Len(job.sync_logs) >= 4
    /\ job.sync_progress > 1
    /\ job.sync_total > job.sync_progress
    /\ job.file_count > 0
    /\ \E r \in RunIds : runs[r].pc = "download" /\ runs[r].cancel_seen

\* C26: a webhook call that was accepted (it answered success) created one
\* email record and one message of the channel, linked the record to the
\* message and raised the email_count of the mailbox once; a task exists only
\* for a call whose mailbox had a model_id, and it marked the email processed
\* only after the completion gave a result.
C26_AcceptedCallStoresMail ==
    \A c \in CallIds :
        LET call  == mail.calls[c]
            agent == mail.agents[c]
        IN  /\ ( call.pc = "done" /\ call.success ) =>
                  /\ call.emails_created = 1
                  /\ call.messages_created = 1
                  /\ call.message_id # 0
                  /\ call.linked = call.message_id
                  /\ call.counted = 1
            /\ agent.pc # "none" => call.mailbox.model_id # 0
            /\ agent.marked => agent.res \in {"choices", "error", "empty"}

\* the fields of the run state of a job
RunState ==
    {"sync_status", "sync_error", "sync_progress", "sync_total", "sync_logs",
     "file_count", "last_sync_at"}

\* C31: an accepted update request changes only the fields it supplies: with
\* only the name supplied the access_control stays, with only the
\* access_control supplied the name stays, and the run state stays in every
\* case.
C31_UpdateChangesSuppliedOnly ==
    [][ ( api' # api /\ api'.endpoint = "update" /\ api'.status_code = 200 ) =>
            Changed(job, job') \subseteq api'.supplied ]_vars

\* the run state is left alone by every accepted update request
UpdateKeepsRunState ==
    [][ ( api' # api /\ api'.endpoint = "update" /\ api'.status_code = 200 ) =>
            Changed(job, job') \cap RunState = {} ]_vars

\* C35: a start-run, cancel or delete request of a user who is neither the
\* owner nor an admin and has no write access is refused, leaves the job
\* record as it is, deletes nothing and dispatches no task; a get or status
\* request of a user who is neither the owner nor an admin and has no read
\* access is refused and its answer carries no job data.
C35_RequestsWithoutAccessRefused ==
    [][ ( api' # api /\ ~api'.granted ) =>
            /\ api'.endpoint \in {"sync", "cancel", "delete"} =>
                  /\ api'.status_code \in {403, 404}
                  /\ job' = job
                  /\ nruns' = nruns
                  /\ runs' = runs
                  /\ resp' = resp
                  /\ api'.deleted = api.deleted
            /\ api'.endpoint \in {"get", "status"} =>
                  /\ api'.status_code \in {403, 404}
                  /\ ~api'.data
                  /\ job' = job ]_vars

\* user 2, who has no write access, asked to cancel the job while its task
\* awaits a download; the request was refused with 403 and the job reads
\* syncing
C35_Witness ==
    /\ api.endpoint = "cancel"
    /\ api.user = 2
    /\ ~api.granted
    /\ api.status_code = 403
    /\ ~api.deleted
    /\ job.sync_status = "syncing"
    /\ \E r \in RunIds : runs[r].pc = "download"

\* C32: file_count and last_sync_at are written only by the step in which a
\* task gets through its item loop to the completion; the step in which a task
\* returns at the cancellation check, on token expiry or on a top-level error
\* leaves both as they were.
C32_OnlyCompletionWritesCounts ==
    [][ /\ ( job'.file_count # job.file_count \/ job'.last_sync_at # job.last_sync_at ) =>
              \E r \in RunIds : /\ runs[r].pc \in {"listing", "download"}
                                /\ runs'[r].pc = "done"
                                /\ runs'[r].exit = "completed"
        /\ \A r \in RunIds :
              ( /\ runs[r].pc # "done"
                /\ runs'[r].pc = "done"
                /\ runs'[r].exit \in {"cancelled", "token_expired", "error"} ) =>
                 /\ job'.file_count = job.file_count
                 /\ job'.last_sync_at = job.last_sync_at ]_vars

\* a run completed and counted files; the next run returned at the
\* cancellation check (or on an error of the listing) and the count and
\* the time of the first are still there
C32_Witness ==
    /\ nruns = 2
    /\ runs[1].exit = "completed"
    /\ runs[2].pc = "done"
    /\ runs[2].exit \in {"cancelled", "token_expired", "error"}
    /\ job.file_count > 0
    /\ job.last_sync_at # NoTime
    /\ job.sync_status \in {"cancelled", "token_expired", "error"}

\* C33: when a task completes and the job reads synced, every item of the
\* folder (each is counted in file_count, as synced or as skipped) has a file
\* record that is attached to the knowledge collection; so an item whose
\* attachment failed in an earlier run is not counted by a later one.
C33_CountedItemsAttached ==
    [][ \A r \in RunIds :
           ( /\ runs[r].pc # "done"
             /\ runs'[r].pc = "done"
             /\ runs'[r].exit = "completed"
             /\ job'.sync_status = "synced" ) =>
              /\ job'.file_count = Len(runs'[r].files)
              /\ \A i \in 1..Len(runs'[r].files) :
                    \E f \in knowledge' :
                       files_db'[f].sharepoint_item_id = runs'[r].files[i].id ]_vars

\* C34: no two file records of the job carry the same remote item id.
C34_OneRecordPerItem ==
    \A i, j \in DOMAIN files_db :
        i # j => files_db[i].sharepoint_item_id # files_db[j].sharepoint_item_id

(* ------------------------------- C36 ------------------------------------ *)

\* an active mailbox of table m has the token
TokenOfActiveMailbox(m, token) ==
    \E i \in MailboxIds : /\ m.mailboxes[i].id # 0
                          /\ m.mailboxes[i].is_active
                          /\ m.mailboxes[i].webhook_token = token

\* C36: a webhook call whose token no mailbox has, only an inactive mailbox
\* has, or a mailbox had until regenerate-token replaced it, is answered with
\* 404 in the step it arrives in, and that step creates no email row and no
\* channel message and leaves every mailbox, its email_count included, as it
\* was; the call never creates or counts anything afterwards
C36_UnmatchedTokenRejected ==
    [][\A c \in CallIds :
          /\ (/\ mail.calls[c].pc = "idle"
              /\ mail'.calls[c].pc # "idle"
              /\ ~TokenOfActiveMailbox(mail, mail'.calls[c].token))
             => /\ mail'.calls[c].pc = "done"
                /\ mail'.calls[c].status_code = 404
                /\ ~mail'.calls[c].success
                /\ mail'.emails = mail.emails
                /\ mail'.messages = mail.messages
                /\ mail'.mailboxes = mail.mailboxes
          /\ (/\ mail.calls[c].pc = "done"
              /\ mail.calls[c].mailbox.id = 0)
             => /\ mail'.calls[c] = mail.calls[c]
                /\ mail'.emails[c] = NoEmail
                /\ mail'.agents[c] = NoAgent]_vars

\* call 1 came with the first token after mailbox 1 was given a new one, and
\* call 2 with the token of mailbox 2 after it was made inactive; both were
\* rejected
C36_Witness ==
    /\ mail.mailboxes[1].id # 0
    /\ mail.mailboxes[1].is_active
    /\ mail.mailboxes[1].webhook_token # 1
    /\ mail.calls[1].pc = "done"
    /\ mail.calls[1].token = 1
    /\ mail.calls[1].status_code = 404
    /\ mail.mailboxes[2].id # 0
    /\ ~mail.mailboxes[2].is_active
    /\ mail.calls[2].pc = "done"
    /\ mail.calls[2].token = mail.mailboxes[2].webhook_token
    /\ mail.calls[2].status_code = 404
    /\ mail.messages = <<>>

(* ------------------------------- C37 ------------------------------------ *)

\* no two mailboxes of table m have the same channel
OneMailboxPerChannel(m) ==
    \A i, j \in MailboxIds :
        (/\ m.mailboxes[i].id # 0
         /\ m.mailboxes[j].id # 0
         /\ m.mailboxes[i].channel_id = m.mailboxes[j].channel_id) => i = j

\* C37: after every step no two mailboxes have the same channel; a create
\* request for a channel that has a mailbox is answered with 400 and stores
\* nothing; and when a mailbox is deleted no email row of it is left
C37_OneMailboxPerChannel ==
    [][/\ OneMailboxPerChannel(mail')
       /\ (/\ mail'.answer # mail.answer
           /\ mail'.answer.endpoint = "create"
           /\ get_mailbox_by_channel_id(mail, mail'.answer.channel_id).id # 0)
          => /\ mail'.answer.status_code = 400
             /\ mail'.mailboxes = mail.mailboxes
             /\ mail'.created = mail.created
             /\ mail'.tokens = mail.tokens
             /\ mail'.emails = mail.emails
       /\ \A i \in MailboxIds :
             (mail.mailboxes[i].id # 0 /\ mail'.mailboxes[i].id = 0)
             => \A c \in CallIds : mail'.emails[c].mailbox_id # i]_vars

\* mailbox 1 received the email of call 1 and was deleted, and the row went
\* with it; mailbox 2 was created afterwards and a second create request for
\* its channel was refused
C37_Witness ==
    /\ mail.mailboxes[1].id = 0
    /\ mail.calls[1].mailbox.id = 1
    /\ mail.calls[1].emails_created = 1
    /\ mail.emails[1] = NoEmail
    /\ mail.mailboxes[2].id # 0
    /\ mail.answer.endpoint = "create"
    /\ mail.answer.channel_id = mail.mailboxes[2].channel_id
    /\ mail.answer.status_code = 400

============================================================================
